---- MODULE Spec2Model ----
(***************************************************************************)
(* A model of the NepsisAI reasoning kernel (src/nepsis): the State data   *)
(* model, the red/blue channel processor, contradiction density, the       *)
(* Lyapunov controller, the collapse governor and the kernel orchestrator. *)
(*                                                                         *)
(* Real numbers are fixed point: 1.0 is SCALE.  The running ruin estimate  *)
(* is kept on the finer RUIN_SCALE so that the confusion-risk increment    *)
(* (rho - 0.5) * 0.05 is exact.  exp, log and sqrt are computed by         *)
(* truncated series / integer root on that grid.                           *)
(***************************************************************************)
EXTENDS Integers, Sequences, FiniteSets, TLC

VARIABLES
    state,        \* the State object being driven (types.py State)
    ruin_prob,    \* the caller's running ruin estimate (step's argument / return value)
    audit,        \* the optional AuditTrail: None or Some(sequence of StepRecords)
    variation,    \* hash(hypothesis_id) % 100 for every id, fixed for one process
    driver,       \* "reason": inside kernel.reason;  "step": a caller driving kernel.step;
                  \* "governor": a caller of the collapse governor on a prepared State
    auto_collapse,\* reason's auto_collapse argument
    signals,      \* reason's signals argument, as the inputs its Signals were built from
    max_steps,    \* reason's max_steps argument
    nsteps,       \* number of signals handed to step so far (reason's loop index)
    last,         \* the last signal handed to step with the path it took, or NoCall
    ret,          \* the value returned by the last governor call, or NoCall
    pc,           \* "run" while signals may still arrive, "done" once reason has returned
    buffer,       \* the TokenBuffer object of a token stream, or NoCall
    tokens,       \* the tokens handed to add_token so far
    chunks,       \* what add_token and flush returned so far: None or Some(TokenChunk)
    governor,     \* the StreamGovernor's own fields (chunk_count, _drift, _alias_dict);
                  \* its State and ruin estimate are state and ruin_prob
    twin          \* a second kernel run, or a second StreamGovernor, that is handed
                  \* the same inputs as the first

streamVars == <<buffer, tokens, chunks, governor, twin>>

vars == <<state, ruin_prob, audit, variation, driver, auto_collapse, signals, max_steps,
          nsteps, last, ret, pc, streamVars>>

-----------------------------------------------------------------------------
(* Fixed-point arithmetic                                                  *)

SCALE == 10 * 10 * 10
RUIN_SCALE == SCALE * 100

Min(a, b) == IF a <= b THEN a ELSE b
Max(a, b) == IF a >= b THEN a ELSE b
Abs(a) == IF a >= 0 THEN a ELSE -a

\* F(v), with v evaluated once however often F uses it.
Bind(v, F(_)) == CHOOSE r \in {F(x) : x \in {v}} : TRUE

\* The sequence <<f[1], ..., f[n]>>, each entry computed once.
RECURSIVE Vec(_, _)
Vec(f, n) == IF n = 0 THEN <<>> ELSE Append(Vec(f, n - 1), f[n])

\* The n x n matrix with entries f[i][j], each computed once.
Mat(f, n) == Vec([i \in 1..n |-> Vec(f[i], n)], n)

RECURSIVE SumTo(_, _)
SumTo(x, k) == IF k = 0 THEN 0 ELSE x[k] + SumTo(x, k - 1)

Sum(x) == Bind(x, LAMBDA v : SumTo(v, Len(v)))

RECURSIVE MaxTo(_, _)
MaxTo(x, k) == IF k = 1 THEN x[1] ELSE Max(x[k], MaxTo(x, k - 1))

MaxOf(x) == Bind(x, LAMBDA v : MaxTo(v, Len(v)))

\* np.linalg.norm on the grid: the integer square root of the sum of squares.
RECURSIVE ISqrt(_)
ISqrt(v) ==
    IF v < 2 THEN v
    ELSE Bind(2 * ISqrt(v \div 4), LAMBDA s : IF (s + 1) * (s + 1) > v THEN s ELSE s + 1)

Norm(d) ==
    Bind(d, LAMBDA v :
        Bind(Sum(Vec([i \in 1..Len(v) |-> v[i] * v[i]], Len(v))), LAMBDA sq : ISqrt(sq)))

\* exp(d / SCALE) for d >= 0 by its Taylor series, term k+1 = term k * d / (k+1).
RECURSIVE ExpTerms(_, _, _)
ExpTerms(d, k, t) ==
    IF t = 0 THEN 0
    ELSE t + Bind((t * d) \div (SCALE * (k + 1)), LAMBDA t1 : ExpTerms(d, k + 1, t1))

\* exp(-d / SCALE) for d >= 0.
ExpNeg(d) == Bind(d, LAMBDA v : (SCALE * SCALE) \div ExpTerms(v, 0, SCALE))

\* -log(x / SCALE) for 0 < x <= SCALE: halve the range, then the atanh series.
RECURSIVE LnNeg(_)
LnNeg(x) ==
    IF 2 * x <= SCALE
    THEN ((693 * SCALE) \div 1000) + Bind(2 * x, LAMBDA x2 : LnNeg(x2))
    ELSE Bind(((SCALE - x) * SCALE) \div (SCALE + x), LAMBDA y :
         Bind((((y * y) \div SCALE) * y) \div SCALE, LAMBDA y3 :
         Bind((((y3 * y) \div SCALE) * y) \div SCALE, LAMBDA y5 :
              2 * (y + (y3 \div 3) + (y5 \div 5)))))

\* utils/math.py softmax(x, temperature): exp((x - max) / T) / sum, with T = 1/2.
softmax(x0) ==
    Bind(x0, LAMBDA x :
    Bind(MaxOf(x), LAMBDA m :
    Bind(Vec([i \in 1..Len(x) |-> ExpNeg(2 * (m - x[i]))], Len(x)), LAMBDA e :
    Bind(Sum(e), LAMBDA total :
         Vec([i \in 1..Len(x) |-> (e[i] * SCALE) \div total], Len(x))))))

\* A normalize that divides by the floored total instead of falling back.
normalize_no_fallback(x0) ==
    Bind(x0, LAMBDA x :
    Bind(Max(1, Sum(x)), LAMBDA total :
         Vec([i \in 1..Len(x) |-> (x[i] * SCALE) \div total], Len(x))))

\* utils/math.py normalize: uniform when the total is below eps, else x / total.
\* eps = 1e-10 is below the grid, so "total < eps" is "total < 1 unit".
normalize(x0) ==
    Bind(x0, LAMBDA x :
    Bind(Sum(x), LAMBDA total :
         IF total < 1 THEN Vec([i \in 1..Len(x) |-> SCALE \div Len(x)], Len(x))
         ELSE Vec([i \in 1..Len(x) |-> (x[i] * SCALE) \div total], Len(x))))

\* utils/math.py entropy: -sum(p_safe * log(p_safe)), p_safe = clip(p, eps, 1).
\* A probability clipped up to eps contributes eps*log(eps), below the grid.
entropy(p0) ==
    Bind(p0, LAMBDA p :
         Sum(Vec([i \in 1..Len(p) |->
                     IF p[i] < 1 THEN 0
                     ELSE Bind(Min(p[i], SCALE), LAMBDA p_safe :
                               (p_safe * LnNeg(p_safe)) \div SCALE)], Len(p))))

-----------------------------------------------------------------------------
(* Data model: core/types.py                                               *)

\* Optional values: Python's None, or a value that is present.
None == [none |-> TRUE]
Some(v) == [none |-> FALSE, v |-> v]

NoCall == [op |-> "none"]

OCCAM == "occam"
HICKAM == "hickam"
ZEROBACK == "zeroback"
CollapseMode == {OCCAM, HICKAM, ZEROBACK}

\* The values of the SignalType enum.
SignalTypeValues == {"vital", "lab", "symptom", "imaging", "history", "red"}

\* A type tag is either a plain string or a member of the SignalType enum.
StrType(v) == [kind |-> "str", v |-> v]
EnumType(v) == [kind |-> "enum", v |-> v]

\* Signal(type, name, value, red_threshold) with __post_init__: a string that
\* names an enum member is converted to that member, any other string is kept.
Signal(type, name, value, red_threshold) ==
    [type |-> IF type.kind = "str" /\ type.v \in SignalTypeValues
              THEN EnumType(type.v) ELSE type,
     name |-> name, value |-> value, red_threshold |-> red_threshold]

\* Python's signal.type == "red": an Enum member never equals a str.
TypeEqualsStr(type, s) == type.kind = "str" /\ type.v = s

\* Hypothesis(id, name, prior, expects); expects maps signal names to booleans.
Hypothesis(id, prior, expects) == [id |-> id, prior |-> prior, expects |-> expects]

Ids(hyps) == Vec([i \in 1..Len(hyps) |-> hyps[i].id], Len(hyps))
IdSet(hyps) == {hyps[i].id : i \in 1..Len(hyps)}

INTERPRETANT_DIM == 16

\* State.from_hypotheses(hypotheses, interpretant_dim)
from_hypotheses(hypotheses, interpretant_dim) ==
    LET n_hyp == Len(hypotheses)
    IN
    Bind(Vec([i \in 1..n_hyp |-> hypotheses[i].prior], n_hyp), LAMBDA raw :
    Bind(Sum(raw), LAMBDA total :
    Bind(IF total > 0
         THEN Vec([i \in 1..n_hyp |-> (raw[i] * SCALE) \div total], n_hyp)
         ELSE Vec([i \in 1..n_hyp |-> SCALE \div n_hyp], n_hyp), LAMBDA priors :
        [hypotheses |-> hypotheses,
         priors |-> priors,
         posteriors |-> priors,
         interpretant_states |->
             Vec([k \in 1..interpretant_dim |-> SCALE \div interpretant_dim], interpretant_dim),
         interpretant_dim |-> interpretant_dim,
         likelihoods |-> Vec([i \in 1..n_hyp |-> SCALE], n_hyp),
         coherence_scores |-> Vec([i \in 1..n_hyp |-> SCALE], n_hyp),
         exclusivity |-> None,
         index |-> [h \in {} |-> 0],
         contradiction_density |-> 0,
         lyapunov_value |-> 0,
         lyapunov_stable |-> FALSE,
         ruin_prob |-> 0,
         step_num |-> 0,
         collapse_mode |-> OCCAM,
         red_preempted |-> FALSE,
         posterior_history |-> <<>>])))

\* The positions of the largest entries of p.
ArgMaxSet(p) == {i \in 1..Len(p) : \A j \in 1..Len(p) : p[j] <= p[i]}

\* np.argmax: the first position holding the maximum.
ArgMax(p) == CHOOSE i \in ArgMaxSet(p) : \A j \in ArgMaxSet(p) : i <= j

Perms(n) == {f \in [1..n -> 1..n] : \A i, j \in 1..n : i # j => f[i] # f[j]}

\* np.argsort(p)[::-1]: the positions by descending value.  numpy's default sort
\* is not stable, so the order among equal values is any order.
ArgsortDesc(p) ==
    {f \in Perms(Len(p)) : \A i \in 1..(Len(p) - 1) : p[f[i]] >= p[f[i + 1]]}

-----------------------------------------------------------------------------
(* Exclusivity: core/exclusivity_builder.py                                *)

\* {h: i for i, h in enumerate(ids)}: the last position of each id.
IndexOf(ids) ==
    [h \in {ids[i] : i \in 1..Len(ids)} |->
        CHOOSE i \in 1..Len(ids) : ids[i] = h /\ \A j \in 1..Len(ids) : ids[j] = h => j <= i]

ZeroMatrix(n) == [i \in 1..n |-> [j \in 1..n |-> 0]]

SetSym(M, i, j, v) ==
    [a \in DOMAIN M |-> [b \in DOMAIN M[a] |->
        IF (a = i /\ b = j) \/ (a = j /\ b = i) THEN v ELSE M[a][b]]]

\* np.fill_diagonal(M, 0.0)
FillDiagonalZero(M) ==
    [a \in DOMAIN M |-> [b \in DOMAIN M[a] |-> IF a = b THEN 0 ELSE M[a][b]]]

\* What Exclusivity.__init__ is to ensure: the matrix is square of size len(ids),
\* symmetric, and has a zero diagonal.
ExclusivityValid(ids, matrix) ==
    /\ DOMAIN matrix = 1..Len(ids)
    /\ \A i \in 1..Len(ids) : DOMAIN matrix[i] = 1..Len(ids)
    /\ \A i, j \in 1..Len(ids) : matrix[i][j] = matrix[j][i]
    /\ \A i \in 1..Len(ids) : matrix[i][i] = 0

\* Exclusivity(ids, matrix, default)
Exclusivity(ids, matrix, default) ==
    [none |-> FALSE, ids |-> ids, matrix |-> matrix, default |-> default]

\* np.allclose(a, b) for scalars: |a - b| <= atol + rtol * |b| with the default
\* atol = 1e-8 and rtol = 1e-5, which on the grid SCALE is
\* |a - b| * 100000 <= 1 + |b|.
AllClose(a, b) == Abs(a - b) <= (1 + Abs(b)) \div 100000

\* The checks of Exclusivity.__init__, in their order: the message of the first
\* assert that fails, or "none".  The checks are assert statements, which an
\* interpreter run with -O (debug = FALSE) does not execute.
ExclusivityAsserts(ids, matrix, debug) ==
    IF ~debug THEN "none"
    ELSE IF ~(Len(matrix) = Len(ids) /\ \A i \in 1..Len(matrix) : Len(matrix[i]) = Len(ids))
    THEN "Matrix shape mismatch"
    ELSE IF ~(\A i, j \in 1..Len(ids) : AllClose(matrix[i][j], matrix[j][i]))
    THEN "Matrix must be symmetric"
    ELSE IF ~(\A i \in 1..Len(ids) : AllClose(matrix[i][i], 0))
    THEN "Diagonal must be zero"
    ELSE "none"

\* Exclusivity(ids, matrix, default) as an expression a caller evaluates: the
\* AssertionError raised, or the instance.
ExclusivityInit(ids, matrix, default, debug) ==
    IF ExclusivityAsserts(ids, matrix, debug) # "none"
    THEN [raised |-> ExclusivityAsserts(ids, matrix, debug), value |-> None]
    ELSE [raised |-> "none", value |-> Some(Exclusivity(ids, matrix, default))]

\* A get that answers 0, not the configured default, for an unknown id.
ExclusivityGet_zero_for_unknown(e, h1, h2) ==
    IF h1 \notin DOMAIN IndexOf(e.ids) \/ h2 \notin DOMAIN IndexOf(e.ids)
    THEN 0
    ELSE e.matrix[IndexOf(e.ids)[h1]][IndexOf(e.ids)[h2]]

\* Exclusivity.get(h1, h2)
ExclusivityGet(e, h1, h2) ==
    IF h1 \notin DOMAIN IndexOf(e.ids) \/ h2 \notin DOMAIN IndexOf(e.ids)
    THEN e.default
    ELSE e.matrix[IndexOf(e.ids)[h1]][IndexOf(e.ids)[h2]]

Clamp01(x) == Max(0, Min(SCALE, x))

\* build_exclusivity_from_rules, the pair rules: later rules overwrite earlier ones.
RECURSIVE ApplyPairs(_, _, _)
ApplyPairs(M, idx, pairs) ==
    IF pairs = <<>> THEN M
    ELSE LET r == Head(pairs)
         IN  IF r[1] \in DOMAIN idx /\ r[2] \in DOMAIN idx
             THEN ApplyPairs(SetSym(M, idx[r[1]], idx[r[2]], Clamp01(r[3])), idx, Tail(pairs))
             ELSE ApplyPairs(M, idx, Tail(pairs))

\* The (a, b) pairs of one group, a before b in the group.
GroupPairs(group) ==
    {<<group[ij[1]], group[ij[2]]>> :
        ij \in {x \in (1..Len(group)) \X (1..Len(group)) : x[1] < x[2]}}

\* build_exclusivity_from_rules, one group rule: the max with what is there.
ApplyGroup(M, idx, group, xi) ==
    [a \in DOMAIN M |-> [b \in DOMAIN M[a] |->
        IF \E pr \in GroupPairs(group) :
              /\ pr[1] \in DOMAIN idx /\ pr[2] \in DOMAIN idx
              /\ {idx[pr[1]], idx[pr[2]]} = {a, b}
        THEN Max(M[a][b], Clamp01(xi)) ELSE M[a][b]]]

RECURSIVE ApplyGroups(_, _, _)
ApplyGroups(M, idx, groups) ==
    IF groups = <<>> THEN M
    ELSE ApplyGroups(ApplyGroup(M, idx, Head(groups)[1], Head(groups)[2]), idx, Tail(groups))

\* build_exclusivity_from_rules(ids, pairs, groups, default)
build_exclusivity_from_rules(ids, pairs, groups, default) ==
    Exclusivity(ids,
                FillDiagonalZero(ApplyGroups(ApplyPairs(ZeroMatrix(Len(ids)), IndexOf(ids), pairs),
                                             IndexOf(ids), groups)),
                default)

\* signal_weights.get(k, 1.0)
WeightOf(sw, k) == IF k \in DOMAIN sw THEN sw[k] ELSE SCALE

\* The sum of the weights of a set of expectation keys.
RECURSIVE WeightSum(_, _)
WeightSum(sw, keys) ==
    IF keys = {} THEN 0
    ELSE LET k == CHOOSE x \in keys : TRUE
         IN  WeightOf(sw, k) + WeightSum(sw, keys \ {k})

\* infer_exclusivity_from_expectations, one pair: the weighted fraction of the
\* expectation keys both hypotheses name on which they disagree.
InferXi(hi, hj, sw) ==
    LET common == DOMAIN hi.expects \cap DOMAIN hj.expects
        conflict == {k \in common : hi.expects[k] # hj.expects[k]}
    IN  IF common = {} THEN 0
        ELSE IF WeightSum(sw, common) > 0
        THEN (WeightSum(sw, conflict) * SCALE) \div WeightSum(sw, common)
        ELSE 0

\* signal_weights=None
NoWeights == [k \in {} |-> 0]

\* infer_exclusivity_from_expectations(hypos, signal_weights, default)
infer_exclusivity_from_expectations(hypotheses, sw, default) ==
    Exclusivity(Ids(hypotheses),
                Mat([i \in 1..Len(hypotheses) |-> [j \in 1..Len(hypotheses) |->
                        IF i = j THEN 0
                        ELSE InferXi(hypotheses[Min(i, j)], hypotheses[Max(i, j)], sw)]],
                    Len(hypotheses)),
                default)

-----------------------------------------------------------------------------
(* State synchronisation: core/utils.py                                    *)

\* ensure_index(state)
ensure_index(s) ==
    IF DOMAIN s.index = {} \/ DOMAIN s.index # IdSet(s.hypotheses)
    THEN [s EXCEPT !.index = IndexOf(Ids(s.hypotheses))]
    ELSE s

\* The rebuilt matrix of ensure_exclusivity: known pairs copied, the rest zero.
RebuiltMatrix(ids, old) ==
    Mat([i \in 1..Len(ids) |-> [j \in 1..Len(ids) |->
            IF i # j /\ ids[i] \in DOMAIN IndexOf(old.ids) /\ ids[j] \in DOMAIN IndexOf(old.ids)
            THEN ExclusivityGet(old, ids[Min(i, j)], ids[Max(i, j)])
            ELSE 0]],
        Len(ids))

\* ensure_exclusivity(state)
ensure_exclusivity(s0) ==
    Bind(ensure_index(s0), LAMBDA s :
        IF s.exclusivity.none
        THEN [s EXCEPT !.exclusivity = infer_exclusivity_from_expectations(s.hypotheses, NoWeights, 0)]
        ELSE IF {s.exclusivity.ids[i] : i \in 1..Len(s.exclusivity.ids)} # IdSet(s.hypotheses)
        THEN [s EXCEPT !.exclusivity =
                 Exclusivity(Ids(s.hypotheses),
                             RebuiltMatrix(Ids(s.hypotheses), s.exclusivity),
                             s.exclusivity.default)]
        ELSE s)

-----------------------------------------------------------------------------
(* Contradiction density: core/contradiction.py                            *)

\* 0.5 * (p @ Xi @ p), clamped to [0, 1].
QuadForm(p, Xi) ==
    LET n == Len(p)
    IN  Bind(Vec([j \in 1..n |-> Sum(Vec([i \in 1..n |-> p[i] * Xi[i][j]], n)) \div SCALE], n),
             LAMBDA v : Sum(Vec([j \in 1..n |-> v[j] * p[j]], n)) \div SCALE)

\* compute_contradiction_density(state): the State with rho stored (and the
\* index and exclusivity synchronised).
compute_contradiction_density(s0) ==
    IF Len(s0.hypotheses) < 2
    THEN [s0 EXCEPT !.contradiction_density = 0]
    ELSE Bind(ensure_exclusivity(ensure_index(s0)), LAMBDA s :
              [s EXCEPT !.contradiction_density =
                  Clamp01(QuadForm(s.posteriors, s.exclusivity.matrix) \div 2)])

-----------------------------------------------------------------------------
(* Interpretant layer: core/interpretant.py                                *)

ALPHA == 300

\* apply_interpretant: the updated interpretant states (the modulated signal it
\* also returns is dropped by its only caller).
apply_interpretant(s, signal) ==
    LET old == s.interpretant_states
        n == Len(old)
    IN  Bind(normalize(Vec([k \in 1..n |-> (old[k] * signal.value) \div SCALE], n)),
             LAMBDA act :
                 Vec([k \in 1..n |-> ((SCALE - ALPHA) * old[k] + ALPHA * act[k]) \div SCALE], n))

\* coherence_score with the default uniform compatibility matrix ones / i_dim.
coherence_score(s, likelihoods) ==
    LET n_hyp == Len(s.hypotheses)
        compat == SCALE \div s.interpretant_dim
        i_dim == Len(s.interpretant_states)
    IN
    Bind(Vec([j \in 1..n_hyp |->
                 Sum(Vec([k \in 1..i_dim |-> s.interpretant_states[k] * compat], i_dim))
                     \div SCALE], n_hyp), LAMBDA contrib :
    Bind(softmax(likelihoods), LAMBDA weights :
         normalize(Vec([j \in 1..n_hyp |-> contrib[j] * weights[j]], n_hyp))))

-----------------------------------------------------------------------------
(* Blue channel: channels/blue.py                                          *)

\* compute_likelihood(signal, hypothesis_id); var is hash(hypothesis_id) % 100.
compute_likelihood(signal, var) ==
    LET base_likelihood == Min(SCALE, signal.value \div 10)
        likelihood == (base_likelihood * ((SCALE \div 2) + var * (SCALE \div 100))) \div SCALE
    IN  Max(SCALE \div 100, Min(SCALE, likelihood))

\* A Blue update that keeps the prior fixed instead of propagating the posterior.
process_blue_channel_fixed_prior(s, signal, hashmod) ==
    LET n == Len(s.hypotheses)
    IN
    Bind(apply_interpretant(s, signal), LAMBDA new_interpretant :
    Bind(Vec([i \in 1..n |-> compute_likelihood(signal, hashmod[s.hypotheses[i].id])], n),
         LAMBDA likelihoods :
    Bind(coherence_score(s, likelihoods), LAMBDA coherence_scores :
    Bind(normalize(Vec([i \in 1..n |->
                  (s.priors[i] * likelihoods[i] * coherence_scores[i]) \div SCALE], n)),
         LAMBDA posteriors :
    Bind(compute_contradiction_density(
             [s EXCEPT !.posteriors = posteriors,
                       !.interpretant_states = new_interpretant,
                       !.likelihoods = likelihoods,
                       !.coherence_scores = coherence_scores]), LAMBDA s1 :
         [s1 EXCEPT !.posterior_history = Append(@, posteriors),
                    !.step_num = @ + 1])))))

\* process_blue_channel(state, signal) with lambda_coherence = 1.
process_blue_channel(s, signal, hashmod) ==
    LET n == Len(s.hypotheses)
    IN
    Bind(apply_interpretant(s, signal), LAMBDA new_interpretant :
    Bind(Vec([i \in 1..n |-> compute_likelihood(signal, hashmod[s.hypotheses[i].id])], n),
         LAMBDA likelihoods :
    Bind(coherence_score(s, likelihoods), LAMBDA coherence_scores :
    Bind(normalize(Vec([i \in 1..n |->
                  (s.priors[i] * likelihoods[i] * coherence_scores[i]) \div SCALE], n)),
         LAMBDA posteriors :
    Bind(compute_contradiction_density(
             [s EXCEPT !.posteriors = posteriors,
                       !.interpretant_states = new_interpretant,
                       !.likelihoods = likelihoods,
                       !.coherence_scores = coherence_scores]), LAMBDA s1 :
         [s1 EXCEPT !.posterior_history = Append(@, posteriors),
                    !.step_num = @ + 1,
                    !.priors = posteriors])))))

-----------------------------------------------------------------------------
(* Red channel: channels/red.py                                            *)

\* check_red_preempt(signal)
check_red_preempt(signal) ==
    \/ (~signal.red_threshold.none /\ signal.value >= signal.red_threshold.v)
    \/ TypeEqualsStr(signal.type, "red")

\* A ruin update that adds the increments without the min(1.0, ...) clamps.
compute_ruin_probability_unclamped(s, current_ruin, signal) ==
    LET after_red == IF check_red_preempt(signal)
                     THEN current_ruin + (RUIN_SCALE \div 10)
                     ELSE current_ruin
    IN  IF s.contradiction_density > SCALE \div 2
        THEN after_red + (((s.contradiction_density - (SCALE \div 2)) * 5
                            * (RUIN_SCALE \div SCALE)) \div 100)
        ELSE after_red

\* A ruin update without the confusion risk of a contradiction density above 0.5.
compute_ruin_probability_no_confusion(s, current_ruin, signal) ==
    IF check_red_preempt(signal)
    THEN Min(RUIN_SCALE, current_ruin + (RUIN_SCALE \div 10))
    ELSE current_ruin

\* compute_ruin_probability(state, current_ruin, signal), on RUIN_SCALE.
compute_ruin_probability(s, current_ruin, signal) ==
    LET after_red == IF check_red_preempt(signal)
                     THEN Min(RUIN_SCALE, current_ruin + (RUIN_SCALE \div 10))
                     ELSE current_ruin
        confusion_risk == ((s.contradiction_density - (SCALE \div 2)) * 5 * (RUIN_SCALE \div SCALE)) \div 100
    IN  IF s.contradiction_density > SCALE \div 2
        THEN Min(RUIN_SCALE, after_red + confusion_risk)
        ELSE after_red

-----------------------------------------------------------------------------
(* Lyapunov controller: control/lyapunov.py                                *)

W_CONTRADICTION == 2000
W_ENTROPY == 1000
W_COHERENCE == 1500
W_VELOCITY == 500

VecDiff(a, b) == Vec([i \in 1..Len(a) |-> a[i] - b[i]], Len(a))

\* compute_lyapunov(state) with the default weights.
compute_lyapunov(s) ==
    LET n == Len(s.posteriors)
        coherence_mismatch ==
            IF Len(s.coherence_scores) > 0
            THEN Sum(Vec([i \in 1..n |-> Abs(s.coherence_scores[i] - s.posteriors[i])], n)) \div n
            ELSE 0
        velocity ==
            IF Len(s.posterior_history) > 0
            THEN Norm(VecDiff(s.posteriors, s.posterior_history[Len(s.posterior_history)]))
            ELSE 0
    IN  (W_CONTRADICTION * s.contradiction_density + W_ENTROPY * entropy(s.posteriors)
         + W_COHERENCE * coherence_mismatch + W_VELOCITY * velocity) \div SCALE

CONVERGENCE_WINDOW == 3
CONVERGENCE_TOLERANCE == 10
CONVERGENCE_MAX_RHO == 300
CONVERGENCE_MIN_TOP == 500

\* The largest change between consecutive entries among the last `window` of the history.
MaxRecentChange(hist, window) ==
    Bind(SubSeq(hist, Len(hist) - window + 1, Len(hist)), LAMBDA recent :
         MaxOf(Vec([i \in 1..(window - 1) |-> Norm(VecDiff(recent[i + 1], recent[i]))],
                   window - 1)))

\* A check_convergence that is satisfied by the change of the last step alone.
check_convergence_last_change(s, window, tolerance) ==
    IF Len(s.posterior_history) < window THEN FALSE
    ELSE IF s.contradiction_density > CONVERGENCE_MAX_RHO THEN FALSE
    ELSE IF MaxRecentChange(s.posterior_history, 2) > tolerance THEN FALSE
    ELSE IF MaxOf(s.posteriors) < CONVERGENCE_MIN_TOP THEN FALSE
    ELSE TRUE

\* check_convergence(state, window, tolerance)
check_convergence(s, window, tolerance) ==
    IF Len(s.posterior_history) < window THEN FALSE
    ELSE IF s.contradiction_density > CONVERGENCE_MAX_RHO THEN FALSE
    ELSE IF MaxRecentChange(s.posterior_history, window) > tolerance THEN FALSE
    ELSE IF MaxOf(s.posteriors) < CONVERGENCE_MIN_TOP THEN FALSE
    ELSE TRUE

-----------------------------------------------------------------------------
(* Kernel orchestrator: core/kernel.py                                     *)

\* str(signal.type): an enum member prints as SignalType.<NAME>.
TypeStr(type) == IF type.kind = "enum" THEN <<"SignalType", type.v>> ELSE <<type.v>>

\* The StepRecord step() writes; top is the position get_top_hypothesis(1) picked.
StepRecord(s, signal, top, red) ==
    [step_num |-> s.step_num,
     signal_type |-> TypeStr(signal.type),
     signal_name |-> signal.name,
     signal_value |-> signal.value,
     contradiction_density |-> s.contradiction_density,
     lyapunov_value |-> s.lyapunov_value,
     top_hypothesis |-> s.hypotheses[top].id,
     top_posterior |-> MaxOf(s.posteriors),
     red_preempted |-> red]

\* AuditTrail.add_step when a trail was passed.
AddStep(trail, record) == IF trail.none THEN trail ELSE Some(Append(trail.v, record))

\* A step whose red path still runs the Blue pipeline before setting the flag.
StepState_blue_on_red(s, signal, hashmod) ==
    Bind(process_blue_channel(s, signal, hashmod), LAMBDA s1 :
    Bind([s1 EXCEPT !.lyapunov_value = compute_lyapunov(s1)], LAMBDA s2 :
    Bind([s2 EXCEPT !.lyapunov_stable =
             check_convergence(s2, CONVERGENCE_WINDOW, CONVERGENCE_TOLERANCE)], LAMBDA s3 :
         IF check_red_preempt(signal) THEN [s3 EXCEPT !.red_preempted = TRUE] ELSE s3)))

\* A step whose Blue path clears the pre-emption flag.
StepState_blue_clears_flag(s, signal, hashmod) ==
    IF check_red_preempt(signal)
    THEN [s EXCEPT !.red_preempted = TRUE]
    ELSE Bind(process_blue_channel(s, signal, hashmod), LAMBDA s1 :
         Bind([s1 EXCEPT !.lyapunov_value = compute_lyapunov(s1)], LAMBDA s2 :
              [s2 EXCEPT !.lyapunov_stable =
                             check_convergence(s2, CONVERGENCE_WINDOW, CONVERGENCE_TOLERANCE),
                         !.red_preempted = FALSE]))

\* The State step() leaves: only the flag on the red path; the blue pipeline,
\* the Lyapunov value and the stability flag otherwise.
StepState(s, signal, hashmod) ==
    IF check_red_preempt(signal)
    THEN [s EXCEPT !.red_preempted = TRUE]
    ELSE Bind(process_blue_channel(s, signal, hashmod), LAMBDA s1 :
         Bind([s1 EXCEPT !.lyapunov_value = compute_lyapunov(s1)], LAMBDA s2 :
              [s2 EXCEPT !.lyapunov_stable =
                  check_convergence(s2, CONVERGENCE_WINDOW, CONVERGENCE_TOLERANCE)]))

\* step(state, signal, audit, lyapunov_weights, ruin_prob): the State, the ruin
\* estimate and the audit trail after the call; top is the position
\* get_top_hypothesis(1) picked for the record.
step(s, signal, trail, ruin, hashmod, top) ==
    Bind(StepState(s, signal, hashmod), LAMBDA s1 :
        [state |-> s1,
         ruin_prob |-> compute_ruin_probability(s1, ruin, signal),
         audit |-> AddStep(trail, StepRecord(s1, signal, top, check_red_preempt(signal)))])

\* The positions get_top_hypothesis(1) may return: argsort leaves the order of
\* equal posteriors open.  Without a trail the pick is never used.
TopChoices(p, trail) == IF trail.none THEN {ArgMax(p)} ELSE ArgMaxSet(p)

-----------------------------------------------------------------------------
(* Configuration: core/config.py (ruin thresholds on RUIN_SCALE)           *)

COLLAPSE_MAX_RUIN == 10000
COLLAPSE_MIN_TOP == 800
COLLAPSE_MAX_CONTRA == 250
HICKAM_MASS_THRESH == 850
HICKAM_MAX_PAIR_XI == 400
ZERO_BACK_CONTRA == 700

-----------------------------------------------------------------------------
(* Collapse governor: control/collapse.py                                  *)

\* _top(state): the position of the top hypothesis (0 for None) and its posterior.
Top(s) ==
    IF Len(s.hypotheses) = 0 \/ Len(s.posteriors) = 0
    THEN [hyp |-> 0, w |-> 0]
    ELSE [hyp |-> ArgMax(s.posteriors), w |-> s.posteriors[ArgMax(s.posteriors)]]

\* The position state._index gives for the hypothesis at list position i.
Idx(s, i) == s.index[s.hypotheses[i].id]

\* A scan that succeeds on mass alone, without asking for two members.
RECURSIVE HickamScan_mass_only(_, _, _, _, _)
HickamScan_mass_only(s, sorted, k, cluster, mass) ==
    IF k > Len(sorted) THEN [ok |-> FALSE, cluster |-> cluster, mass |-> mass]
    ELSE IF s.posteriors[Idx(s, sorted[k])] = 0
    THEN [ok |-> FALSE, cluster |-> cluster, mass |-> mass]
    ELSE LET h == sorted[k]
             compatible == \A c \in 1..Len(cluster) :
                 ~(s.exclusivity.matrix[Idx(s, h)][Idx(s, cluster[c])] > HICKAM_MAX_PAIR_XI)
             cluster1 == IF compatible THEN Append(cluster, h) ELSE cluster
             mass1 == IF compatible THEN mass + s.posteriors[Idx(s, h)] ELSE mass
         IN  IF mass1 >= HICKAM_MASS_THRESH
             THEN [ok |-> TRUE, cluster |-> cluster1, mass |-> mass1]
             ELSE HickamScan_mass_only(s, sorted, k + 1, cluster1, mass1)

\* A scan that gives up at the first incompatible candidate instead of skipping it.
RECURSIVE HickamScan_stop_on_conflict(_, _, _, _, _)
HickamScan_stop_on_conflict(s, sorted, k, cluster, mass) ==
    IF k > Len(sorted) THEN [ok |-> FALSE, cluster |-> cluster, mass |-> mass]
    ELSE IF s.posteriors[Idx(s, sorted[k])] = 0
    THEN [ok |-> FALSE, cluster |-> cluster, mass |-> mass]
    ELSE LET h == sorted[k]
             compatible == \A c \in 1..Len(cluster) :
                 ~(s.exclusivity.matrix[Idx(s, h)][Idx(s, cluster[c])] > HICKAM_MAX_PAIR_XI)
         IN  IF ~compatible
             THEN [ok |-> FALSE, cluster |-> cluster, mass |-> mass]
             ELSE IF mass + s.posteriors[Idx(s, h)] >= HICKAM_MASS_THRESH
                     /\ Len(cluster) + 1 >= 2
             THEN [ok |-> TRUE, cluster |-> Append(cluster, h),
                   mass |-> mass + s.posteriors[Idx(s, h)]]
             ELSE HickamScan_stop_on_conflict(s, sorted, k + 1, Append(cluster, h),
                                              mass + s.posteriors[Idx(s, h)])

\* The for loop of _hickam_cluster_ok from candidate k of the sorted list on;
\* cluster holds list positions, in the order they were added.
RECURSIVE HickamScan(_, _, _, _, _)
HickamScan(s, sorted, k, cluster, mass) ==
    IF k > Len(sorted) THEN [ok |-> FALSE, cluster |-> cluster, mass |-> mass]
    ELSE IF s.posteriors[Idx(s, sorted[k])] = 0
    THEN [ok |-> FALSE, cluster |-> cluster, mass |-> mass]
    ELSE LET h == sorted[k]
             compatible == \A c \in 1..Len(cluster) :
                 ~(s.exclusivity.matrix[Idx(s, h)][Idx(s, cluster[c])] > HICKAM_MAX_PAIR_XI)
             cluster1 == IF compatible THEN Append(cluster, h) ELSE cluster
             mass1 == IF compatible THEN mass + s.posteriors[Idx(s, h)] ELSE mass
         IN  IF mass1 >= HICKAM_MASS_THRESH /\ Len(cluster1) >= 2
             THEN [ok |-> TRUE, cluster |-> cluster1, mass |-> mass1]
             ELSE HickamScan(s, sorted, k + 1, cluster1, mass1)

\* _hickam_cluster_ok(state); sorted is the order np.argsort(...)[::-1] produced.
\* Returns (is_valid, cluster, total_mass) and the State as synchronised.
hickam_cluster_ok(s0, sorted) ==
    Bind(ensure_exclusivity(ensure_index(s0)), LAMBDA s :
        IF Len(s.hypotheses) < 2
        THEN [ok |-> FALSE, cluster |-> <<>>, mass |-> 0, state |-> s]
        ELSE Bind(HickamScan(s, sorted, 1, <<>>, 0), LAMBDA r :
                  [ok |-> r.ok, cluster |-> r.cluster, mass |-> r.mass, state |-> s]))

\* Python's `override or default`: None and 0.0 both fall back to the default.
OrDefault(override, default) ==
    IF override.none THEN default ELSE IF override.v = 0 THEN default ELSE override.v

\* decide_collapse(state, occam_threshold, hickam_threshold, zeroback_threshold)
decide_collapse(s, sorted, occam_threshold, zeroback_threshold) ==
    IF s.contradiction_density > OrDefault(zeroback_threshold, COLLAPSE_MAX_CONTRA)
    THEN [mode |-> ZEROBACK, selected |-> <<>>, state |-> s]
    ELSE Bind(IF s.collapse_mode = HICKAM
              THEN hickam_cluster_ok(s, sorted)
              ELSE [ok |-> FALSE, cluster |-> <<>>, mass |-> 0, state |-> s], LAMBDA h :
         IF h.ok
         THEN [mode |-> HICKAM, selected |-> h.cluster, state |-> h.state]
         ELSE IF Top(s).hyp # 0 /\ Top(s).w >= OrDefault(occam_threshold, COLLAPSE_MIN_TOP)
         THEN [mode |-> OCCAM, selected |-> <<Top(s).hyp>>, state |-> h.state]
         ELSE [mode |-> s.collapse_mode, selected |-> <<>>, state |-> h.state])

\* A should_collapse whose HICKAM branch also applies the contradiction gate.
should_collapse_gated_hickam(s, sorted) ==
    IF Top(s).hyp = 0 THEN [value |-> FALSE, state |-> s]
    ELSE IF s.collapse_mode = ZEROBACK THEN [value |-> FALSE, state |-> s]
    ELSE IF s.collapse_mode = OCCAM
    THEN [value |-> /\ Top(s).w >= COLLAPSE_MIN_TOP
                    /\ s.contradiction_density <= COLLAPSE_MAX_CONTRA
                    /\ s.ruin_prob <= COLLAPSE_MAX_RUIN,
          state |-> s]
    ELSE [value |-> /\ hickam_cluster_ok(s, sorted).ok
                    /\ s.contradiction_density <= COLLAPSE_MAX_CONTRA
                    /\ s.ruin_prob <= COLLAPSE_MAX_RUIN,
          state |-> hickam_cluster_ok(s, sorted).state]

\* should_collapse(state)
should_collapse(s, sorted) ==
    IF Top(s).hyp = 0 THEN [value |-> FALSE, state |-> s]
    ELSE IF s.collapse_mode = ZEROBACK THEN [value |-> FALSE, state |-> s]
    ELSE IF s.collapse_mode = OCCAM
    THEN [value |-> /\ Top(s).w >= COLLAPSE_MIN_TOP
                    /\ s.contradiction_density <= COLLAPSE_MAX_CONTRA
                    /\ s.ruin_prob <= COLLAPSE_MAX_RUIN,
          state |-> s]
    ELSE IF s.collapse_mode = HICKAM
    THEN [value |-> hickam_cluster_ok(s, sorted).ok /\ s.ruin_prob <= COLLAPSE_MAX_RUIN,
          state |-> hickam_cluster_ok(s, sorted).state]
    ELSE [value |-> FALSE, state |-> s]

\* state.hypotheses.index(h): the first list position holding an equal hypothesis.
ListIndex(seq, x) ==
    CHOOSE i \in 1..Len(seq) : seq[i] = x /\ \A j \in 1..(i - 1) : seq[j] # x

\* An apply_collapse whose ZEROBACK branch forgets to carry the step counter over.
apply_collapse_counter_lost(s, mode, selected) ==
    IF mode = ZEROBACK
    THEN [from_hypotheses(s.hypotheses, s.interpretant_dim) EXCEPT !.collapse_mode = ZEROBACK]
    ELSE s

\* An apply_collapse whose OCCAM branch keeps the selected hypothesis' own weight.
apply_collapse_occam_keeps_weight(s, mode, selected) ==
    LET n == Len(s.posteriors)
        sel == {selected[i] : i \in 1..Len(selected)}
    IN  IF mode = ZEROBACK
        THEN [from_hypotheses(s.hypotheses, s.interpretant_dim)
                 EXCEPT !.step_num = s.step_num, !.collapse_mode = ZEROBACK]
        ELSE [s EXCEPT !.posteriors = Vec([i \in 1..n |-> IF i \in sel THEN s.posteriors[i]
                                                                     ELSE 0], n),
                       !.collapse_mode = mode]

\* apply_collapse(state, mode, selected_hypotheses); selected holds the list
\* positions the hypotheses were taken from.
apply_collapse(s, mode, selected) ==
    LET n == Len(s.posteriors)
        sel == {ListIndex(s.hypotheses, s.hypotheses[selected[i]]) : i \in 1..Len(selected)}
        kept == Vec([i \in 1..n |-> IF i \in sel THEN s.posteriors[i] ELSE 0], n)
        total == Sum(kept)
    IN  IF mode = ZEROBACK
        THEN [from_hypotheses(s.hypotheses, s.interpretant_dim)
                 EXCEPT !.step_num = s.step_num, !.collapse_mode = ZEROBACK]
        ELSE IF mode = OCCAM
        THEN [s EXCEPT !.posteriors = Vec([i \in 1..n |-> IF i \in sel THEN SCALE ELSE 0], n),
                       !.collapse_mode = OCCAM]
        ELSE IF mode = HICKAM
        THEN [s EXCEPT !.posteriors = IF total > 0
                                      THEN Vec([i \in 1..n |-> (kept[i] * SCALE) \div total], n)
                                      ELSE kept,
                       !.collapse_mode = HICKAM]
        ELSE s

-----------------------------------------------------------------------------
(* Bounds and input sets                                                   *)

MaxSteps == 3                      \* signals a caller hands to step in one run
MaxSignals == 4                    \* length of the signal list handed to reason

NoExpects == [k \in {} |-> 0]
Expect(k, v) == [x \in {k} |-> v]

\* The hypothesis lists the kernel runs are started on.
HypothesisLists ==
    { <<Hypothesis("h1", 900, Expect("dx", 1)), Hypothesis("h2", 100, Expect("dx", 2))>>,
      <<Hypothesis("h1", 300, Expect("dx", 1)), Hypothesis("h2", 400, Expect("dx", 2)),
        Hypothesis("h3", 300, Expect("dx", 3))>>,
      <<Hypothesis("h1", 0, NoExpects), Hypothesis("h2", 0, NoExpects)>>,
      <<Hypothesis("h1", 550, Expect("dx", 1)), Hypothesis("h2", 250, Expect("dx", 2)),
        Hypothesis("h3", 200, Expect("dx", 3))>> }

\* Values of hash(id) % 100, for the first hypothesis and for the others.
VarGrid == { <<0, 0>>, <<99, 0>>, <<0, 99>> }

Variations(hyps) ==
    { [h \in IdSet(hyps) |-> IF h = hyps[1].id THEN v[1] ELSE v[2]] : v \in VarGrid }

\* Signals as a driver constructs them: the type is passed as a string or as an
\* enum member, the value is on SCALE, the threshold is optional.
SignalInputs ==
    { <<StrType("test"), 5000, None>>,
      <<StrType("critical"), 50000, Some(30000)>>,
      <<StrType("vital"), 30000, Some(30000)>>,
      <<StrType("lab"), 20000, Some(30000)>>,
      <<StrType("red"), 5000, None>>,
      <<EnumType("red"), 5000, None>> }

\* How a caller of step prepares the State and its ruin estimate:
\* <<collapse_mode, contradiction_density, starting ruin estimate, priors kept>>.
\* The last preparation overwrites state.priors with zeros, leaving the
\* posteriors at the normalized priors.
Preparations ==
    { <<OCCAM, 0, 0, TRUE>>, <<HICKAM, 0, 0, TRUE>>, <<OCCAM, 600, 95000, TRUE>>,
      <<OCCAM, 0, 0, FALSE>>, <<OCCAM, 600, 0, TRUE>> }

\* reason's <<auto_collapse, audit>> arguments.
ReasonArguments == { <<TRUE, None>>, <<FALSE, None>>, <<TRUE, Some(<<>>)>> }

\* The signals reason's lists are made of, one for each path of step, and the
\* lists: every order of up to MaxSignals of them.
ReasonSignals ==
    { <<StrType("test"), 5000, None>>,
      <<StrType("critical"), 50000, Some(30000)>> }

SignalLists == UNION { [1..n -> ReasonSignals] : n \in 0..MaxSignals }

\* reason's max_steps: one that cuts the longest lists short, and the default.
DEFAULT_MAX_STEPS == 100
MaxStepsChoices == {2, DEFAULT_MAX_STEPS}

\* No token stream, stream governor or second run is part of the run.
NoStream ==
    /\ buffer = NoCall
    /\ tokens = <<>>
    /\ chunks = <<>>
    /\ governor = NoCall
    /\ twin = NoCall

-----------------------------------------------------------------------------
(* Kernel runs: kernel.reason, or a caller driving kernel.step             *)

InitReason ==
    /\ driver = "reason"
    /\ \E hyps \in HypothesisLists :
          /\ state = from_hypotheses(hyps, INTERPRETANT_DIM)
          /\ variation \in Variations(hyps)
    /\ ruin_prob = 0
    /\ \E arg \in ReasonArguments : auto_collapse = arg[1] /\ audit = arg[2]
    /\ signals \in SignalLists
    /\ max_steps \in MaxStepsChoices

InitStep ==
    /\ driver = "step"
    /\ \E hyps \in HypothesisLists, prep \in Preparations :
          /\ state = [from_hypotheses(hyps, INTERPRETANT_DIM)
                         EXCEPT !.collapse_mode = prep[1], !.contradiction_density = prep[2],
                                !.priors = IF prep[4] THEN @ ELSE [i \in 1..Len(hyps) |-> 0]]
          /\ variation \in Variations(hyps)
          /\ ruin_prob = prep[3]
    /\ auto_collapse = FALSE
    /\ signals = <<>>
    /\ max_steps = DEFAULT_MAX_STEPS
    /\ audit = None

Init ==
    /\ InitReason \/ InitStep
    /\ nsteps = 0
    /\ last = NoCall
    /\ ret = NoCall
    /\ pc = "run"
    /\ NoStream

\* The total mass of prior * likelihood * coherence that a Blue update handed
\* to normalize, from the priors before the update and the State after it.
UnnormalizedMass(priors, after) ==
    Sum([i \in 1..Len(priors) |->
            (priors[i] * after.likelihoods[i] * after.coherence_scores[i]) \div SCALE])

\* A reason loop that does not look at the stability flag.
LoopContinues_ignores_convergence(i, sigs, maxs, auto, s) ==
    i < Len(sigs) /\ i < maxs

\* reason's loop takes signal i + 1 (i signals processed so far): the list is
\* not exhausted, i < max_steps, and the last step did not end the loop.
LoopContinues(i, sigs, maxs, auto, s) ==
    /\ i < Len(sigs)
    /\ i < maxs
    /\ ~(auto /\ i > 0 /\ s.lyapunov_stable)

\* One call of step(state, signal, audit, lyapunov_weights, ruin_prob), from
\* reason's loop or from a caller that threads the ruin estimate through.
Step ==
    /\ pc = "run"
    /\ driver \in {"reason", "step"}
    /\ IF driver = "reason"
       THEN LoopContinues(nsteps, signals, max_steps, auto_collapse, state)
       ELSE nsteps < MaxSteps
    /\ \E inp \in IF driver = "reason" THEN {signals[nsteps + 1]} ELSE SignalInputs :
        \E signal \in {Signal(inp[1], "s", inp[2], inp[3])} :
        \E top \in TopChoices(StepState(state, signal, variation).posteriors, audit) :
        \E r \in {step(state, signal, audit, ruin_prob, variation, top)} :
              /\ state' = r.state
              /\ ruin_prob' = r.ruin_prob
              /\ audit' = r.audit
              /\ last' = [op |-> "step", signal |-> signal, red |-> check_red_preempt(signal),
                          mass |-> IF check_red_preempt(signal) THEN 0
                                   ELSE UnnormalizedMass(state.priors, r.state)]
    /\ nsteps' = nsteps + 1
    /\ ret' = NoCall
    /\ UNCHANGED <<variation, driver, auto_collapse, signals, max_steps, pc, streamVars>>

\* The end of reason: the final collapse decision and the ReasoningResult.
ReasonReturn ==
    /\ pc = "run"
    /\ driver = "reason"
    /\ ~LoopContinues(nsteps, signals, max_steps, auto_collapse, state)
    /\ \E sorted \in ArgsortDesc(state.posteriors), top \in ArgMaxSet(state.posteriors) :
        \E final \in {IF auto_collapse
                       THEN Bind(decide_collapse(state, sorted, None, None), LAMBDA d :
                                 [d.state EXCEPT !.collapse_mode = d.mode])
                       ELSE state} :
              /\ state' = final
              /\ ret' = [op |-> "reason",
                         top_hypothesis |-> final.hypotheses[top].id,
                         top_posterior |-> MaxOf(final.posteriors),
                         contradiction_density |-> final.contradiction_density,
                         converged |-> final.lyapunov_stable,
                         red_preempted |-> final.red_preempted,
                         steps |-> final.step_num,
                         before |-> state, sorted |-> sorted]
    /\ pc' = "done"
    /\ UNCHANGED <<ruin_prob, audit, variation, driver, auto_collapse, signals, max_steps, nsteps, last, streamVars>>

\* A caller asks should_collapse(state); a prepared State is asked one question.
ShouldCollapse ==
    /\ driver \in {"step", "governor"}
    /\ driver = "governor" => ret = NoCall
    /\ \E sorted \in ArgsortDesc(state.posteriors) :
        \E r \in {should_collapse(state, sorted)} :
              /\ state' = r.state
              /\ ret' = [op |-> "should_collapse", value |-> r.value,
                         mode |-> state.collapse_mode, sorted |-> sorted]
    /\ UNCHANGED <<ruin_prob, audit, variation, driver, auto_collapse, signals, max_steps, nsteps, last, pc, streamVars>>

\* A caller ends its run with a ZeroBack collapse: apply_collapse(state, ZEROBACK, []).
ApplyZeroBack ==
    /\ pc = "run"
    /\ driver \in {"step", "governor"}
    /\ state' = apply_collapse(state, ZEROBACK, <<>>)
    /\ ret' = [op |-> "apply_collapse", mode |-> ZEROBACK, replaced |-> state]
    /\ pc' = "done"
    /\ UNCHANGED <<ruin_prob, audit, variation, driver, auto_collapse, signals, max_steps, nsteps, last, streamVars>>

\* The <<window, tolerance>> arguments a caller passes to check_convergence.
ConvergenceArguments ==
    { <<CONVERGENCE_WINDOW, CONVERGENCE_TOLERANCE>>, <<2, CONVERGENCE_TOLERANCE>>, <<2, 0>>,
      <<CONVERGENCE_WINDOW, 200>> }

\* A caller asks check_convergence(state, window, tolerance).
CheckConvergence ==
    /\ pc = "run"
    /\ driver = "step"
    /\ ret = NoCall
    /\ \E arg \in ConvergenceArguments :
          ret' = [op |-> "check_convergence", window |-> arg[1], tolerance |-> arg[2],
                  value |-> check_convergence(state, arg[1], arg[2])]
    /\ UNCHANGED <<state, ruin_prob, audit, variation, driver, auto_collapse, signals, max_steps, nsteps, last, pc, streamVars>>

Next == Step \/ ReasonReturn \/ ShouldCollapse \/ ApplyZeroBack \/ CheckConvergence

Spec == Init /\ [][Next]_vars

\* reason is inside its loop, about to take the next signal.
InLoop ==
    /\ pc = "run"
    /\ driver = "reason"
    /\ LoopContinues(nsteps, signals, max_steps, auto_collapse, state)

\* reason is sequential code: its loop body and its return are taken when they
\* can be.  The loop's fairness is weak fairness of Step in a reason run, with
\* ENABLED written out as the loop condition.
SpecReason ==
    /\ Spec
    /\ []<>(~InLoop) \/ []<><<driver = "reason" /\ nsteps' = nsteps + 1>>_vars
    /\ WF_vars(ReasonReturn)

-----------------------------------------------------------------------------
(* The collapse governor on prepared States, as the tests of               *)
(* tests/test_hickam_collapse.py prepare them: from_hypotheses, then the    *)
(* posteriors, exclusivity, mode, contradiction density and ruin are set.   *)

GovernorHypotheses(n) ==
    Vec([i \in 1..n |-> Hypothesis(<<"h1", "h2", "h3", "h4">>[i], SCALE \div n,
                                   Expect("dx", i % 2))], n)

\* A symmetric matrix over three hypotheses from its three pair values.
Matrix3(a, b, c) == << <<0, a, b>>, <<a, 0, c>>, <<b, c, 0>> >>

XiGrid == {0, 400, 401}            \* below, at and above HICKAM_MAX_PAIR_XI

\* The exclusivity a test attaches (ids in hypothesis order), or none at all.
ExclusivityChoices(hyps) ==
    IF Len(hyps) = 2
    THEN {None} \cup {Exclusivity(Ids(hyps), << <<0, a>>, <<a, 0>> >>, 0) : a \in XiGrid}
    ELSE IF Len(hyps) = 3
    THEN {None} \cup {Exclusivity(Ids(hyps), Matrix3(m[1], m[2], m[3]), 0) :
                         m \in XiGrid \X XiGrid \X XiGrid}
    ELSE {None}

PosteriorChoices(n) ==
    IF n = 1 THEN { <<1000>> }
    ELSE IF n = 2 THEN { <<900, 100>>, <<500, 500>>, <<849, 0>> }
    ELSE IF n = 3
    THEN { <<700, 150, 150>>, <<150, 500, 350>>, <<100, 450, 450>>, <<0, 600, 400>>,
           <<800, 200, 0>>, <<201, 0, 799>>, <<0, 0, 0>> }
    ELSE {<<>>}

RhoGrid == {0, 250, 251, 700, 701}         \* around COLLAPSE_MAX_CONTRA and ZERO_BACK_CONTRA
RuinGrid == {0, 10000, 10001}              \* around COLLAPSE_MAX_RUIN

\* test_three_way_cluster: three compatible hypotheses, a fourth exclusive with each.
\* The matrix its pair rules build:
ThreeWayMatrix ==
    << <<0, 100, 100, 900>>, <<100, 0, 100, 900>>, <<100, 100, 0, 900>>, <<900, 900, 900, 0>> >>
ThreeWayPosteriors == <<350, 300, 250, 100>>

\* The prepared State of a test.
Prepared(hyps, posteriors, excl, mode, rho, ruin) ==
    [from_hypotheses(hyps, INTERPRETANT_DIM)
        EXCEPT !.posteriors = posteriors, !.exclusivity = excl, !.collapse_mode = mode,
               !.contradiction_density = rho, !.ruin_prob = ruin]

InitGrid ==
    \E n \in {0, 1, 2, 3} :
      \E posteriors \in PosteriorChoices(n), excl \in ExclusivityChoices(GovernorHypotheses(n)),
         mode \in CollapseMode, rho \in RhoGrid, ruin \in RuinGrid :
            state = Prepared(GovernorHypotheses(n), posteriors, excl, mode, rho, ruin)

ThreeWayPairs ==
    << <<"h1", "h2", 100>>, <<"h1", "h3", 100>>, <<"h2", "h3", 100>>,
       <<"h1", "h4", 900>>, <<"h2", "h4", 900>>, <<"h3", "h4", 900>> >>

InitThreeWay ==
    \E mode \in CollapseMode, ruin \in RuinGrid :
        state = Prepared(GovernorHypotheses(4), ThreeWayPosteriors,
                         build_exclusivity_from_rules(Ids(GovernorHypotheses(4)),
                                                      ThreeWayPairs, <<>>, 0),
                         mode, 0, ruin)

InitGovernor ==
    /\ driver = "governor"
    /\ InitGrid \/ InitThreeWay
    /\ variation = [h \in IdSet(state.hypotheses) |-> 0]
    /\ ruin_prob = 0
    /\ auto_collapse = FALSE
    /\ signals = <<>>
    /\ max_steps = DEFAULT_MAX_STEPS
    /\ audit = None
    /\ nsteps = 0
    /\ last = NoCall
    /\ ret = NoCall
    /\ pc = "run"
    /\ NoStream

\* A caller asks _hickam_cluster_ok(state).
HickamClusterOk ==
    /\ driver = "governor"
    /\ ret = NoCall
    /\ \E sorted \in ArgsortDesc(state.posteriors) :
        \E r \in {hickam_cluster_ok(state, sorted)} :
              /\ state' = r.state
              /\ ret' = [op |-> "hickam_cluster_ok", ok |-> r.ok, cluster |-> r.cluster,
                         mass |-> r.mass, sorted |-> sorted]
    /\ UNCHANGED <<ruin_prob, audit, variation, driver, auto_collapse, signals, max_steps, nsteps, last, pc, streamVars>>

\* The per-call overrides <<occam_threshold, zeroback_threshold>> of decide_collapse.
Overrides == { <<None, None>>, <<None, Some(500)>>, <<Some(600), None>>, <<Some(0), Some(0)>> }

\* A caller asks decide_collapse(state, occam_threshold, None, zeroback_threshold).
DecideCollapse ==
    /\ driver = "governor"
    /\ ret = NoCall
    /\ \E sorted \in ArgsortDesc(state.posteriors), o \in Overrides :
        \E d \in {decide_collapse(state, sorted, o[1], o[2])} :
              /\ state' = d.state
              /\ ret' = [op |-> "decide_collapse", mode |-> d.mode, selected |-> d.selected,
                         sorted |-> sorted, overrides |-> o]
    /\ UNCHANGED <<ruin_prob, audit, variation, driver, auto_collapse, signals, max_steps, nsteps, last, pc, streamVars>>

\* The caller applies the decision it was given: apply_collapse(state, mode, selected).
ApplyCollapse ==
    /\ driver = "governor"
    /\ ret.op = "decide_collapse"
    /\ state' = apply_collapse(state, ret.mode, ret.selected)
    /\ ret' = [op |-> "apply_decision", mode |-> ret.mode, selected |-> ret.selected,
               replaced |-> state]
    /\ UNCHANGED <<ruin_prob, audit, variation, driver, auto_collapse, signals, max_steps, nsteps, last, pc, streamVars>>

NextGovernor == HickamClusterOk \/ DecideCollapse \/ ShouldCollapse \/ ApplyCollapse

SpecGovernor == InitGovernor /\ [][NextGovernor]_vars

-----------------------------------------------------------------------------
(* Exclusivity and contradiction density on a State whose hypothesis list a *)
(* caller changes: exclusivity_builder.py, utils.py, contradiction.py, as    *)
(* tests/test_exclusivity.py drives them.                                   *)

MaxChanges == 2                    \* changes made to the hypothesis list in one run

Expect2(a, b) == [k \in {"a", "b"} |-> IF k = "a" THEN a ELSE b]

\* The hypothesis lists a run starts on.
ExclusivityHypotheses ==
    { <<Hypothesis("h1", 500, Expect2(1, 1)), Hypothesis("h2", 500, Expect2(2, 1))>>,
      <<Hypothesis("h1", 400, Expect2(1, 1)), Hypothesis("h2", 300, Expect2(2, 1)),
        Hypothesis("h3", 300, Expect2(2, 2))>> }

\* The posteriors a caller sets; [0.7, 0.6] is the scenario of the docstring.
ExclusivityPosteriors(n) ==
    IF n = 2 THEN { <<700, 600>> } ELSE { <<500, 300, 200>>, <<1000, 1000, 1000>> }

\* Pair rules: in range, out of range on both sides, a self-pair, an unknown id.
PairRuleLists ==
    { <<>>,
      << <<"h1", "h2", 900>> >>,
      << <<"h1", "h2", 900>>, <<"h1", "h3", 200>> >>,
      << <<"h1", "h2", 1500>>, <<"h2", "h3", 0 - 500>> >>,
      << <<"h1", "h1", 900>>, <<"h2", "zz", 700>>, <<"h2", "h1", 100>> >> }

\* Group rules: <<members, exclusivity>>.
GroupRuleLists ==
    { <<>>,
      << << <<"h1", "h2", "h3">>, 600 >> >>,
      << << <<"h2", "h2", "h1">>, 2000 >> >> }

Defaults == {0, 300}

\* signal_weights: none, one key weighted, weights of both signs, no weight at all.
WeightChoices ==
    { NoWeights,
      [k \in {"a"} |-> 2000],
      [k \in {"a", "b"} |-> IF k = "a" THEN 3000 ELSE 0 - 2000],
      [k \in {"a", "b"} |-> 0] }

InitExclusivity ==
    /\ driver = "exclusivity"
    /\ \E hyps \in ExclusivityHypotheses :
        \E p \in ExclusivityPosteriors(Len(hyps)) :
            state = [from_hypotheses(hyps, INTERPRETANT_DIM) EXCEPT !.posteriors = p]
    /\ variation = [h \in IdSet(state.hypotheses) |-> 0]
    /\ ruin_prob = 0
    /\ auto_collapse = FALSE
    /\ signals = <<>>
    /\ max_steps = DEFAULT_MAX_STEPS
    /\ audit = None
    /\ nsteps = 0
    /\ last = NoCall
    /\ ret = NoCall
    /\ pc = "run"
    /\ NoStream

\* The matrices a caller hands to the Exclusivity constructor for n ids: a
\* well-formed one, an asymmetric one, one with a nonzero diagonal, one whose
\* two triangles differ by 0.001 at 100, one of size n + 1, and a single row.
ConstructorMatrices(n) ==
    { Mat([i \in 1..n |-> [j \in 1..n |-> IF i = j THEN 0 ELSE 900]], n),
      Mat([i \in 1..n |-> [j \in 1..n |-> IF i = j THEN 0 ELSE IF i < j THEN 900 ELSE 100]], n),
      Mat([i \in 1..n |-> [j \in 1..n |-> IF i = j THEN 500 ELSE 0]], n),
      Mat([i \in 1..n |-> [j \in 1..n |->
              IF i = j THEN 0 ELSE IF i < j THEN 100 * SCALE ELSE 100 * SCALE + 1]], n),
      Mat([i \in 1..(n + 1) |-> [j \in 1..(n + 1) |-> 0]], n + 1),
      << [j \in 1..n |-> 0] >> }

\* A caller evaluates Exclusivity(ids, matrix, default), in an interpreter that
\* executes assert statements or in one started with -O.
Construct ==
    /\ driver = "exclusivity"
    /\ state.exclusivity.none
    /\ nsteps = 0
    /\ ret = NoCall
    /\ \E matrix \in ConstructorMatrices(Len(state.hypotheses)), default \in Defaults,
          debug \in BOOLEAN :
        \E r \in {ExclusivityInit(Ids(state.hypotheses), matrix, default, debug)} :
          ret' = [op |-> "Exclusivity", ids |-> Ids(state.hypotheses), matrix |-> matrix,
                  debug |-> debug, raised |-> r.raised, value |-> r.value]
    /\ UNCHANGED <<state, ruin_prob, audit, variation, driver, auto_collapse, signals,
                   max_steps, nsteps, last, pc, streamVars>>

\* The caller attaches state.exclusivity = build_exclusivity_from_rules(...).
BuildFromRules ==
    /\ driver = "exclusivity"
    /\ state.exclusivity.none
    /\ nsteps = 0
    /\ \E pairs \in PairRuleLists, groups \in GroupRuleLists, default \in Defaults :
        \E e \in {build_exclusivity_from_rules(Ids(state.hypotheses), pairs, groups, default)} :
            /\ ExclusivityValid(e.ids, e.matrix)
            /\ state' = [state EXCEPT !.exclusivity = e]
            /\ ret' = [op |-> "build_exclusivity_from_rules", value |-> e]
    /\ UNCHANGED <<ruin_prob, audit, variation, driver, auto_collapse, signals, max_steps,
                   nsteps, last, pc, streamVars>>

\* The caller attaches state.exclusivity = infer_exclusivity_from_expectations(...).
InferFromExpectations ==
    /\ driver = "exclusivity"
    /\ state.exclusivity.none
    /\ nsteps = 0
    /\ \E sw \in WeightChoices, default \in Defaults :
        \E e \in {infer_exclusivity_from_expectations(state.hypotheses, sw, default)} :
            /\ ExclusivityValid(e.ids, e.matrix)
            /\ state' = [state EXCEPT !.exclusivity = e]
            /\ ret' = [op |-> "infer_exclusivity_from_expectations", value |-> e, weights |-> sw]
    /\ UNCHANGED <<ruin_prob, audit, variation, driver, auto_collapse, signals, max_steps,
                   nsteps, last, pc, streamVars>>

\* The sequence seq without its entry at position k.
RemoveAt(seq, k) == SubSeq(seq, 1, k - 1) \o SubSeq(seq, k + 1, Len(seq))

\* The sequence seq read in the order perm.
Reordered(seq, perm) == [i \in 1..Len(seq) |-> seq[perm[i]]]

\* The reorderings a caller makes: the first two swapped, the list rotated.
Reorderings(n) ==
    { [i \in 1..n |-> IF i = 1 THEN 2 ELSE IF i = 2 THEN 1 ELSE i],
      [i \in 1..n |-> IF i = n THEN 1 ELSE i + 1] }

\* The caller has changed state.hypotheses and state.posteriors; nothing else
\* of the State is touched until the next call that synchronises it.
Changed(kind, hyps, posteriors) ==
    /\ state' = [state EXCEPT !.hypotheses = hyps, !.posteriors = posteriors]
    /\ last' = [op |-> "change", kind |-> kind, before |-> state]
    /\ ret' = NoCall
    /\ nsteps' = nsteps + 1
    /\ UNCHANGED <<ruin_prob, audit, variation, driver, auto_collapse, signals, max_steps, pc, streamVars>>

\* A change may follow the attachment, another change or a synchronisation.
MayChange ==
    /\ driver = "exclusivity"
    /\ nsteps < MaxChanges
    /\ ~state.exclusivity.none
    /\ ret.op \notin {"get", "compute_contradiction_density"}

AddHypothesis ==
    /\ MayChange
    /\ "h4" \notin IdSet(state.hypotheses)
    /\ Changed("add", Append(state.hypotheses, Hypothesis("h4", 100, Expect2(1, 2))),
               Append(state.posteriors, 100))

RemoveHypothesis ==
    /\ MayChange
    /\ Len(state.hypotheses) >= 2
    /\ \E k \in {1, Len(state.hypotheses)} :
          Changed("remove", RemoveAt(state.hypotheses, k), RemoveAt(state.posteriors, k))

ReorderHypotheses ==
    /\ MayChange
    /\ Len(state.hypotheses) >= 2
    /\ \E perm \in Reorderings(Len(state.hypotheses)) :
          Changed("reorder", Reordered(state.hypotheses, perm),
                  Reordered(state.posteriors, perm))

\* The synchronisation routine: ensure_exclusivity(state).
EnsureExclusivity ==
    /\ driver = "exclusivity"
    /\ ~state.exclusivity.none
    /\ ret.op \notin {"get", "compute_contradiction_density", "ensure_exclusivity"}
    /\ state' = ensure_exclusivity(state)
    /\ ret' = [op |-> "ensure_exclusivity", before |-> state]
    /\ UNCHANGED <<ruin_prob, audit, variation, driver, auto_collapse, signals, max_steps,
                   nsteps, last, pc, streamVars>>

\* compute_contradiction_density(state)
ComputeContradiction ==
    /\ driver = "exclusivity"
    /\ ret.op \notin {"get", "compute_contradiction_density"}
    /\ \E s \in {compute_contradiction_density(state)} :
          /\ state' = s
          /\ ret' = [op |-> "compute_contradiction_density",
                     value |-> s.contradiction_density, before |-> state]
    /\ UNCHANGED <<ruin_prob, audit, variation, driver, auto_collapse, signals, max_steps,
                   nsteps, last, pc, streamVars>>

\* The id pairs looked up: known ids in both orders, a diagonal, unknown ids.
GetPairs ==
    { <<"h1", "h2">>, <<"h2", "h1">>, <<"h3", "h1">>, <<"h1", "h1">>,
      <<"zz", "h1">>, <<"zz", "zz">> }

\* state.exclusivity.get(h1, h2)
Get ==
    /\ driver = "exclusivity"
    /\ ~state.exclusivity.none
    /\ ret.op \notin {"get", "compute_contradiction_density"}
    /\ \E pr \in GetPairs :
          ret' = [op |-> "get", h1 |-> pr[1], h2 |-> pr[2],
                  value |-> ExclusivityGet(state.exclusivity, pr[1], pr[2])]
    /\ UNCHANGED <<state, ruin_prob, audit, variation, driver, auto_collapse, signals,
                   max_steps, nsteps, last, pc, streamVars>>

NextExclusivity ==
    \/ Construct
    \/ BuildFromRules
    \/ InferFromExpectations
    \/ AddHypothesis
    \/ RemoveHypothesis
    \/ ReorderHypotheses
    \/ EnsureExclusivity
    \/ ComputeContradiction
    \/ Get

SpecExclusivity == InitExclusivity /\ [][NextExclusivity]_vars

-----------------------------------------------------------------------------
(* Two kernel runs on identical initial States and identical signals.  Each *)
(* run is one interpreter process: hash(hypothesis_id) is salted per        *)
(* process (blue.py compute_likelihood), so each run has its own variation; *)
(* two runs in one process share it.                                        *)

InitTwoRuns ==
    /\ driver = "two runs"
    /\ \E hyps \in HypothesisLists :
          /\ state = from_hypotheses(hyps, INTERPRETANT_DIM)
          /\ variation \in Variations(hyps)
          /\ \E v \in Variations(hyps) :
                twin = [state |-> from_hypotheses(hyps, INTERPRETANT_DIM),
                        ruin_prob |-> 0, variation |-> v]
    /\ ruin_prob = 0
    /\ auto_collapse = FALSE
    /\ signals = <<>>
    /\ max_steps = DEFAULT_MAX_STEPS
    /\ audit = None
    /\ nsteps = 0
    /\ last = NoCall
    /\ ret = NoCall
    /\ pc = "run"
    /\ buffer = NoCall
    /\ tokens = <<>>
    /\ chunks = <<>>
    /\ governor = NoCall

\* Both runs are handed the same next signal: step(state, signal, None, None, ruin_prob).
StepBoth ==
    /\ driver = "two runs"
    /\ nsteps < MaxSteps
    /\ \E inp \in SignalInputs :
        \E signal \in {Signal(inp[1], "s", inp[2], inp[3])} :
        \E r \in {step(state, signal, None, ruin_prob, variation, 1)} :
        \E r2 \in {step(twin.state, signal, None, twin.ruin_prob, twin.variation, 1)} :
              /\ state' = r.state
              /\ ruin_prob' = r.ruin_prob
              /\ twin' = [twin EXCEPT !.state = r2.state, !.ruin_prob = r2.ruin_prob]
              /\ last' = [op |-> "step", signal |-> signal, red |-> check_red_preempt(signal)]
    /\ nsteps' = nsteps + 1
    /\ UNCHANGED <<audit, variation, driver, auto_collapse, signals, max_steps, ret, pc,
                   buffer, tokens, chunks, governor>>

NextTwoRuns == StepBoth

SpecTwoRuns == InitTwoRuns /\ [][NextTwoRuns]_vars

-----------------------------------------------------------------------------
(* Token buffering: stream/token_buffer.py.  A text is the sequence of its  *)
(* characters and a token is a text; ''.join is concatenation.              *)

RECURSIVE Join(_)
Join(texts) == IF texts = <<>> THEN <<>> ELSE Head(texts) \o Join(Tail(texts))

Whitespace == {" ", "\n", "\t"}

RECURSIVE StripTrailingWhitespace(_)
StripTrailingWhitespace(text) ==
    IF text # <<>> /\ text[Len(text)] \in Whitespace
    THEN StripTrailingWhitespace(SubSeq(text, 1, Len(text) - 1))
    ELSE text

\* pattern.search(text) for a pattern [chars][\s\n]*$ (one of the characters,
\* then only whitespace up to the end).
EndsWith(text, chars) ==
    LET body == StripTrailingWhitespace(text)
    IN  body # <<>> /\ body[Len(body)] \in chars

\* TokenBuffer.SENTENCE_END and the punctuation of TokenBuffer.CLAUSE_END.
SENTENCE_END == {".", "!", "?"}
CLAUSE_END == {",", ";", ":"}

\* TokenBuffer(mode, max_buffer_tokens, emit_clause_boundaries)
TokenBuffer(mode, max_buffer_tokens, emit_clause_boundaries) ==
    [mode |-> mode, max_buffer_tokens |-> max_buffer_tokens,
     emit_clause_boundaries |-> emit_clause_boundaries,
     buffer |-> <<>>, global_token_idx |-> 0, chunk_start_idx |-> 0]

\* TokenBuffer._is_semantic_boundary(text)
is_semantic_boundary(tb, text) ==
    \/ EndsWith(text, SENTENCE_END)
    \/ (tb.emit_clause_boundaries /\ EndsWith(text, CLAUSE_END))

\* An _emit_chunk that leaves the emitted tokens in the buffer.
emit_chunk_keeps_buffer(tb, is_complete) ==
    [chunk |-> Some([text |-> Join(tb.buffer),
                     tokens |-> tb.buffer,
                     token_count |-> Len(tb.buffer),
                     is_complete |-> is_complete,
                     start_idx |-> tb.chunk_start_idx,
                     end_idx |-> tb.global_token_idx]),
     tb |-> [tb EXCEPT !.chunk_start_idx = tb.global_token_idx + 1]]

\* TokenBuffer._emit_chunk(is_complete): the chunk and the buffer object after it.
emit_chunk(tb, is_complete) ==
    [chunk |-> Some([text |-> Join(tb.buffer),
                     tokens |-> tb.buffer,
                     token_count |-> Len(tb.buffer),
                     is_complete |-> is_complete,
                     start_idx |-> tb.chunk_start_idx,
                     end_idx |-> tb.global_token_idx]),
     tb |-> [tb EXCEPT !.buffer = <<>>, !.chunk_start_idx = tb.global_token_idx + 1]]

\* The <<should_emit, is_complete>> add_token decides on, for the buffer object
\* with the new token already appended.
EmitDecision(tb) ==
    IF tb.mode = "fixed"
    THEN <<Len(tb.buffer) >= tb.max_buffer_tokens, FALSE>>
    ELSE IF tb.mode = "semantic"
    THEN IF is_semantic_boundary(tb, Join(tb.buffer)) THEN <<TRUE, TRUE>>
         ELSE IF Len(tb.buffer) >= tb.max_buffer_tokens * 2 THEN <<TRUE, FALSE>>
         ELSE <<FALSE, FALSE>>
    ELSE IF tb.mode = "hybrid"
    THEN IF is_semantic_boundary(tb, Join(tb.buffer)) THEN <<TRUE, TRUE>>
         ELSE IF Len(tb.buffer) >= tb.max_buffer_tokens THEN <<TRUE, FALSE>>
         ELSE <<FALSE, FALSE>>
    ELSE <<FALSE, FALSE>>

\* TokenBuffer.add_token(token): the returned chunk (or None) and the buffer
\* object after the call.
add_token(tb0, token) ==
    LET tb == [tb0 EXCEPT !.buffer = Append(@, token)]
        e == emit_chunk(tb, EmitDecision(tb)[2])
    IN  IF EmitDecision(tb)[1]
        THEN [chunk |-> e.chunk, tb |-> [e.tb EXCEPT !.global_token_idx = @ + 1]]
        ELSE [chunk |-> None, tb |-> [tb EXCEPT !.global_token_idx = @ + 1]]

\* TokenBuffer.flush()
flush(tb) ==
    IF tb.buffer = <<>> THEN [chunk |-> None, tb |-> tb] ELSE emit_chunk(tb, TRUE)

MaxTokens == 4                     \* tokens handed to add_token in one run

\* The tokens of the stream: a word, sentence and clause punctuation alone and
\* followed by a space, a space, and the empty token.
Tokens ==
    { <<"w">>, <<".">>, <<",">>, <<" ">>, <<"?", " ">>, <<>> }

\* The buffers a stream is run through: <<mode, max_buffer_tokens,
\* emit_clause_boundaries>>; "words" is a mode the constructor does not know.
BufferArguments ==
    { <<"hybrid", 2, FALSE>>, <<"hybrid", 3, TRUE>>, <<"semantic", 1, FALSE>>,
      <<"semantic", 2, TRUE>>, <<"fixed", 1, FALSE>>, <<"fixed", 2, FALSE>>,
      <<"words", 1, FALSE>> }

InitStream ==
    /\ driver = "stream"
    /\ \E arg \in BufferArguments : buffer = TokenBuffer(arg[1], arg[2], arg[3])
    /\ tokens = <<>>
    /\ chunks = <<>>
    /\ governor = NoCall
    /\ twin = NoCall
    /\ state = NoCall
    /\ variation = <<>>
    /\ ruin_prob = 0
    /\ auto_collapse = FALSE
    /\ signals = <<>>
    /\ max_steps = DEFAULT_MAX_STEPS
    /\ audit = None
    /\ nsteps = 0
    /\ last = NoCall
    /\ ret = NoCall
    /\ pc = "run"

\* The caller hands the next token of the stream to buffer.add_token(token).
AddToken ==
    /\ driver = "stream"
    /\ Len(tokens) < MaxTokens
    /\ \E token \in Tokens :
        \E r \in {add_token(buffer, token)} :
          /\ buffer' = r.tb
          /\ tokens' = Append(tokens, token)
          /\ chunks' = IF r.chunk.none THEN chunks ELSE Append(chunks, r.chunk.v)
          /\ ret' = [op |-> "add_token", value |-> r.chunk]
    /\ UNCHANGED <<state, ruin_prob, audit, variation, driver, auto_collapse, signals,
                   max_steps, nsteps, last, pc, governor, twin>>

\* The caller calls buffer.flush(), at the end of the stream or in between.
Flush ==
    /\ driver = "stream"
    /\ \E r \in {flush(buffer)} :
          /\ buffer' = r.tb
          /\ chunks' = IF r.chunk.none THEN chunks ELSE Append(chunks, r.chunk.v)
          /\ ret' = [op |-> "flush", value |-> r.chunk]
    /\ UNCHANGED <<state, ruin_prob, audit, variation, driver, auto_collapse, signals,
                   max_steps, nsteps, last, pc, tokens, governor, twin>>

NextStream == AddToken \/ Flush

SpecStream == InitStream /\ [][NextStream]_vars

-----------------------------------------------------------------------------
(* Stream governor: stream/async_governor.py, with the feature extraction   *)
(* of stream/token_features.py and the drift scores of                      *)
(* stream/constraint_map.py.  A chunk text is given by the words in it; a    *)
(* pattern or an alias matches when one of its words is among them.          *)

Words(text) == {text[i] : i \in 1..Len(text)}

RE_MONEY == {"$50"}
RE_NUMBER == {"$50", "3"}
RE_TRANSPORT == {"train", "bus"}
RE_NEGATION == {"no", "not", "never"}

\* FeatureVector.strength() for the features the words can have.
strength(text) ==
    Max(0, Min(SCALE,
        (IF Words(text) \cap RE_MONEY # {} THEN 180 ELSE 0)
        + (IF Words(text) \cap RE_NUMBER # {} THEN 100 ELSE 0)
        + (IF Words(text) \cap RE_TRANSPORT # {} THEN 140 ELSE 0)
        + Min(160, 50 * Cardinality({i \in 1..Len(text) : text[i] \in RE_NEGATION}))))

\* ConstraintMap(hypothesis_id, keywords, antonyms)
ConstraintMap(hypothesis_id, keywords, antonyms) ==
    [hypothesis_id |-> hypothesis_id, keywords |-> keywords, antonyms |-> antonyms]

\* The alias dictionary StreamGovernor.__init__ builds from its constraint maps.
AliasDict(maps) ==
    [id \in {maps[i].hypothesis_id : i \in 1..Len(maps)} |->
        LET m == maps[CHOOSE i \in 1..Len(maps) :
                        /\ maps[i].hypothesis_id = id
                        /\ \A j \in (i + 1)..Len(maps) : maps[j].hypothesis_id # id]
        IN  [keywords |-> m.keywords, antonyms |-> m.antonyms]]

\* The score extract_features gives one hypothesis: 0.15 for a keyword, 0.35
\* for an antonym.
HitScore(text, cfg) ==
    (IF Words(text) \cap cfg.keywords # {} THEN 150 ELSE 0)
    + (IF Words(text) \cap cfg.antonyms # {} THEN 350 ELSE 0)

\* extract_features(text, constraint_aliases).constraint_hits
constraint_hits(text, aliases) ==
    [id \in {h \in DOMAIN aliases : HitScore(text, aliases[h]) > 0} |->
        Min(SCALE, HitScore(text, aliases[id]))]

DRIFT_ALPHA == 350

\* DriftAccumulator.update(deltas): the scores after the update.
DriftUpdate(scores, deltas) ==
    [k \in DOMAIN scores \cup DOMAIN deltas |->
        IF k \in DOMAIN deltas
        THEN Clamp01(((SCALE - DRIFT_ALPHA) * (IF k \in DOMAIN scores THEN scores[k] ELSE 0)
                      + DRIFT_ALPHA * deltas[k]) \div SCALE)
        ELSE scores[k]]

NoScores == [k \in {} |-> 0]

\* StreamGovernor(hypotheses, constraint_maps=maps): the object's fields.
StreamGovernor(hypotheses, maps) ==
    [state |-> from_hypotheses(hypotheses, INTERPRETANT_DIM),
     ruin_prob |-> 0,
     chunk_count |-> 0,
     drift |-> NoScores,
     alias_dict |-> AliasDict(maps)]

\* StreamGovernor._extract_metrics(chunk)
extract_metrics(g, chunk) ==
    LET n == Len(g.state.hypotheses)
        rho == g.state.contradiction_density
    IN  [token_index |-> chunk.end_idx,
         fidelity_score |-> SCALE - rho,
         contradiction_density |-> rho,
         interpretant_coherence |->
             IF Len(g.state.coherence_scores) > 0
             THEN Sum(g.state.coherence_scores) \div Len(g.state.coherence_scores)
             ELSE SCALE,
         constraint_risk |->
             [id \in IdSet(g.state.hypotheses) \cup DOMAIN g.drift |->
                 IF id \in IdSet(g.state.hypotheses)
                 THEN IF id \in DOMAIN g.drift
                      THEN (600 * g.state.posteriors[ListIndex(Ids(g.state.hypotheses), id)]
                            + 400 * g.drift[id]) \div SCALE
                      ELSE g.state.posteriors[ListIndex(Ids(g.state.hypotheses), id)]
                 ELSE g.drift[id]],
         collapse_suggest |-> IF rho > 750 THEN "zeroback"
                              ELSE IF rho > 400 THEN "hickam" ELSE "none",
         lyapunov_value |-> g.state.lyapunov_value,
         ruin_prob |-> g.ruin_prob]

\* StreamGovernor.process_chunk(chunk): the governor after the call and the
\* metrics it returns.
process_chunk(g, chunk, hashmod) ==
    LET hits == constraint_hits(chunk.text, g.alias_dict)
        signal == Signal(EnumType("history"), <<"chunk", g.chunk_count>>,
                         strength(chunk.text), None)
    IN  Bind(step(g.state, signal, None, g.ruin_prob, hashmod, 1), LAMBDA r :
        Bind([g EXCEPT !.state = r.state,
                       !.ruin_prob = r.ruin_prob,
                       !.chunk_count = @ + 1,
                       !.drift = IF DOMAIN hits # {} THEN DriftUpdate(@, hits) ELSE @],
             LAMBDA g1 : [governor |-> g1, metrics |-> extract_metrics(g1, chunk)]))

\* StreamGovernor.reset()
reset(g) ==
    [g EXCEPT !.state = from_hypotheses(g.state.hypotheses, g.state.interpretant_dim),
              !.ruin_prob = 0,
              !.chunk_count = 0]

MaxChunks == 3                     \* chunks handed to one governor in one run

\* The hypotheses and constraint maps a governor is constructed with; the
\* second map is for an id that is not among the hypotheses.
StreamHypotheses ==
    <<Hypothesis("no_flights", 800, NoExpects), Hypothesis("budget_ok", 600, NoExpects)>>

StreamConstraintMaps ==
    { <<>>,
      <<ConstraintMap("no_flights", {"train", "bus"}, {"flight"})>>,
      <<ConstraintMap("no_flights", {"train", "bus"}, {"flight"}),
        ConstraintMap("site_count", {"temple"}, {})>> }

\* The texts of the chunks handed to process_chunk.
ChunkTexts ==
    { <<"okay">>, <<"take", "the", "train">>, <<"no", "flight">>,
      <<"a", "temple", "$50">>, <<>> }

\* The governor object is the variables state and ruin_prob together with the
\* fields kept in governor.
GovernorObject == [governor EXCEPT !.state = state, !.ruin_prob = ruin_prob]

InitStreamGovernor ==
    /\ driver = "stream governor"
    /\ \E maps \in StreamConstraintMaps :
          governor = StreamGovernor(StreamHypotheses, maps)
    /\ state = governor.state
    /\ ruin_prob = governor.ruin_prob
    /\ variation \in Variations(StreamHypotheses)
    /\ twin = NoCall
    /\ buffer = NoCall
    /\ tokens = <<>>
    /\ chunks = <<>>
    /\ auto_collapse = FALSE
    /\ signals = <<>>
    /\ max_steps = DEFAULT_MAX_STEPS
    /\ audit = None
    /\ nsteps = 0
    /\ last = NoCall
    /\ ret = NoCall
    /\ pc = "run"

\* The caller hands the next chunk to governor.process_chunk(chunk); once the
\* governor has been reset, a freshly constructed governor is handed the same
\* chunks.
ProcessChunk ==
    /\ driver = "stream governor"
    /\ nsteps < MaxChunks
    /\ \E text \in ChunkTexts :
        \E chunk \in {[text |-> text, end_idx |-> nsteps]} :
        \E r \in {process_chunk(GovernorObject, chunk, variation)} :
        \E r2 \in {IF twin = NoCall THEN NoCall ELSE process_chunk(twin, chunk, variation)} :
          /\ governor' = r.governor
          /\ state' = r.governor.state
          /\ ruin_prob' = r.governor.ruin_prob
          /\ twin' = IF twin = NoCall THEN NoCall ELSE r2.governor
          /\ ret' = [op |-> "process_chunk", metrics |-> r.metrics,
                     fresh |-> IF twin = NoCall THEN None ELSE Some(r2.metrics)]
    /\ nsteps' = nsteps + 1
    /\ UNCHANGED <<audit, variation, driver, auto_collapse, signals, max_steps, last, pc,
                   buffer, tokens, chunks>>

\* The caller calls governor.reset(), and constructs a second governor with
\* the same hypotheses and constraint maps.
Reset ==
    /\ driver = "stream governor"
    /\ twin = NoCall
    /\ \E g \in {reset(GovernorObject)} :
          /\ governor' = g
          /\ state' = g.state
          /\ ruin_prob' = g.ruin_prob
          /\ twin' = [StreamGovernor(g.state.hypotheses, <<>>)
                         EXCEPT !.alias_dict = g.alias_dict]
    /\ ret' = [op |-> "reset"]
    /\ UNCHANGED <<audit, variation, driver, auto_collapse, signals, max_steps, nsteps, last,
                   pc, buffer, tokens, chunks>>

NextStreamGovernor == ProcessChunk \/ Reset

SpecStreamGovernor == InitStreamGovernor /\ [][NextStreamGovernor]_vars

-----------------------------------------------------------------------------
(* Properties of the kernel runs (Spec)                                    *)

\* C1: across a sequence of step calls that thread the ruin estimate through,
\* every call returns an estimate that is not below the one it was given and
\* that lies in [0, 1], on the red path and on the Blue path alike.
C1_RuinMonotone ==
    [][(nsteps' = nsteps + 1) =>
          (ruin_prob' >= ruin_prob /\ ruin_prob' >= 0 /\ ruin_prob' <= RUIN_SCALE)]_vars

\* A Blue step that was handed an estimate already clamped at 1.0.
C1_Witness ==
    /\ nsteps >= 2
    /\ last.op = "step" /\ ~last.red
    /\ ruin_prob = RUIN_SCALE

\* C2: check_red_preempt is true exactly when a threshold is set and reached or
\* the signal's type is the red category, whether the type was given as the
\* string "red" or as SignalType.RED; step takes the red path then.
C2_RedCategoryPreempts ==
    last.op = "step" =>
        (last.red <=>
            \/ (~last.signal.red_threshold.none
                  /\ last.signal.value >= last.signal.red_threshold.v)
            \/ last.signal.type.v = "red")

\* C3: a step whose signal triggers red pre-emption leaves every field of the
\* State as it was, except red_preempted, which it sets; the trail grows by one
\* record when there is one.
C3_RedStepFrame ==
    [][(nsteps' = nsteps + 1 /\ last'.red) =>
          /\ state' = [state EXCEPT !.red_preempted = TRUE]
          /\ audit'.none = audit.none
          /\ ~audit.none => Len(audit'.v) = Len(audit.v) + 1]_vars

\* A threshold signal pre-empted a State that earlier Blue updates had moved.
C3_Witness ==
    /\ last.op = "step" /\ last.red
    /\ ~last.signal.red_threshold.none
    /\ state.red_preempted
    /\ state.step_num >= 1
    /\ state.posteriors # from_hypotheses(state.hypotheses, INTERPRETANT_DIM).posteriors

\* C4: once the ruin accumulated by the steps exceeds the max ruin for collapse,
\* should_collapse on the resulting State answers false.
C4_AccumulatedRuinGates ==
    (ret.op = "should_collapse" /\ ruin_prob > COLLAPSE_MAX_RUIN) => ~ret.value

\* The normalized priors of a hypothesis list, uniform when they have no mass.
NormalizedPriors(hyps) ==
    LET total == Sum([i \in 1..Len(hyps) |-> hyps[i].prior])
    IN  [i \in 1..Len(hyps) |->
            IF total > 0 THEN (hyps[i].prior * SCALE) \div total ELSE SCALE \div Len(hyps)]

\* C10: applying a ZeroBack collapse gives a State whose posteriors and priors
\* are the normalized original priors, with an empty history, a uniform
\* interpretant vector, no ruin, and the step counter of the State it replaced.
C10_ZeroBackReset ==
    ret.op = "apply_collapse" =>
        /\ state.hypotheses = ret.replaced.hypotheses
        /\ state.posteriors = NormalizedPriors(ret.replaced.hypotheses)
        /\ state.priors = NormalizedPriors(ret.replaced.hypotheses)
        /\ state.posterior_history = <<>>
        /\ Len(state.interpretant_states) = ret.replaced.interpretant_dim
        /\ \A k \in 1..Len(state.interpretant_states) :
              state.interpretant_states[k] = SCALE \div ret.replaced.interpretant_dim
        /\ state.ruin_prob = 0
        /\ state.step_num = ret.replaced.step_num
        /\ state.collapse_mode = ZEROBACK

\* The State replaced had taken two Blue updates and moved away from its priors.
C10_Witness ==
    /\ ret.op = "apply_collapse"
    /\ ret.replaced.step_num >= 2
    /\ Len(ret.replaced.posterior_history) >= 2
    /\ ret.replaced.posteriors # state.posteriors
    /\ ret.replaced.red_preempted

\* The posterior vector is a distribution over the hypotheses, up to the
\* rounding of one grid unit per entry.
IsDistribution(s) ==
    /\ Len(s.posteriors) = Len(s.hypotheses)
    /\ \A i \in 1..Len(s.posteriors) : s.posteriors[i] >= 0
    /\ Sum(s.posteriors) <= SCALE
    /\ Sum(s.posteriors) > SCALE - Len(s.posteriors)

IsUniform(p) == \A i \in 1..Len(p) : p[i] = SCALE \div Len(p)

\* C12: in every State reached by kernel steps, Blue and red-preempted in any
\* interleaving, the posterior vector has one entry per hypothesis, every entry
\* is non-negative and the entries sum to 1; a Blue update whose unnormalized
\* product prior * likelihood * coherence has no mass leaves the uniform vector.
C12_PosteriorDistribution ==
    /\ [](IsDistribution(state))
    /\ [][(nsteps' = nsteps + 1 /\ ~last'.red /\ UnnormalizedMass(state.priors, state') < 1)
              => IsUniform(state'.posteriors)]_vars

\* A Blue update found no mass in its product and fell back to the uniform
\* vector, although the likelihoods of the hypotheses differed.
C12_Witness ==
    /\ last.op = "step" /\ ~last.red
    /\ last.mass < 1
    /\ IsUniform(state.posteriors)
    /\ \E i, j \in 1..Len(state.likelihoods) : state.likelihoods[i] # state.likelihoods[j]

\* The four conditions of convergence, stated on the State.
FourConditions(s, window, tolerance) ==
    /\ Len(s.posterior_history) >= window
    /\ s.contradiction_density <= CONVERGENCE_MAX_RHO
    /\ \A i \in (Len(s.posterior_history) - window + 1)..(Len(s.posterior_history) - 1) :
          i >= 1 => Norm(VecDiff(s.posterior_history[i + 1], s.posterior_history[i])) <= tolerance
    /\ \E i \in 1..Len(s.posteriors) : s.posteriors[i] >= CONVERGENCE_MIN_TOP

StepLimit == Min(Len(signals), max_steps)

\* What holds of a run of reason once it has returned.
ReasonReturned ==
    ret.op = "reason" =>
        /\ nsteps <= StepLimit
        /\ auto_collapse =>
              /\ nsteps = StepLimit \/ state.lyapunov_stable
              /\ state = [ret.before EXCEPT !.collapse_mode =
                              decide_collapse(ret.before, ret.sorted, None, None).mode]
        /\ ~auto_collapse => (nsteps = StepLimit /\ state = ret.before)

\* C14: reason hands the signals to step in list order and returns after at
\* most min(len(signals), max_steps) of them; with auto_collapse it takes no
\* further signal once a step has left the stability flag true, and then sets
\* the collapse mode from decide_collapse; without it, it processes exactly
\* min(len(signals), max_steps) signals and leaves the collapse mode untouched.
C14_ReasonLoop ==
    /\ [](ReasonReturned)
    /\ [][(driver = "reason" /\ nsteps' = nsteps + 1) =>
              /\ nsteps < StepLimit
              /\ last'.signal = Signal(signals[nsteps + 1][1], "s", signals[nsteps + 1][2],
                                       signals[nsteps + 1][3])
              /\ ~(auto_collapse /\ state.lyapunov_stable)]_vars
    /\ (driver = "reason") ~> (pc = "done" /\ ret.op = "reason")

\* reason returned on convergence with signals of its list left unprocessed.
C14_Witness ==
    /\ ret.op = "reason"
    /\ auto_collapse
    /\ state.lyapunov_stable
    /\ nsteps < StepLimit

\* The number of signals among the first n of reason's list that did not
\* trigger red pre-emption.
BlueCount(sigs, n) ==
    Cardinality({i \in 1..n : ~check_red_preempt(Signal(sigs[i][1], "s", sigs[i][2], sigs[i][3]))})

\* The State was created by from_hypotheses and only kernel steps (and reason's
\* final decision) have acted on it: no collapse was applied to it.
DrivenByStepsOnly == driver = "reason" \/ (driver = "step" /\ pc = "run")

\* C23: every Blue (non-preempted) step appends exactly one snapshot, the
\* posteriors it produced, to the history, increments the step counter by
\* exactly 1 and makes those posteriors the priors of the next step; so while a
\* State created by from_hypotheses is driven only by kernel steps its step
\* counter equals the history length, and in a reason run both equal the number
\* of non-preempted signals processed.
C23_BlueStepBookkeeping ==
    /\ [](DrivenByStepsOnly =>
             /\ state.step_num = Len(state.posterior_history)
             /\ driver = "reason" => state.step_num = BlueCount(signals, nsteps))
    /\ [][(driver \in {"reason", "step"} /\ nsteps' = nsteps + 1 /\ ~last'.red) =>
             /\ state'.posterior_history = Append(state.posterior_history, state'.posteriors)
             /\ state'.step_num = state.step_num + 1
             /\ state'.priors = state'.posteriors]_vars

\* A reason run that processed two Blue signals and a pre-empted one, the last
\* Blue step having moved the posteriors away from its priors.
C23_Witness ==
    /\ driver = "reason"
    /\ nsteps = 3
    /\ state.step_num = 2
    /\ last.op = "step" /\ ~last.red
    /\ state.posterior_history[1] # state.posterior_history[2]

\* C24: the Lyapunov value step stores after a Blue update is the one whose
\* velocity term is the L2 norm of the difference between the new posterior and
\* the previous history entry, the posterior that was current before this step
\* (0 when there is no earlier step).
C24_VelocityFromPreviousEntry ==
    [][(driver \in {"reason", "step"} /\ nsteps' = nsteps + 1 /\ ~last'.red) =>
          state'.lyapunov_value =
              compute_lyapunov([state' EXCEPT !.posterior_history = state.posterior_history])]_vars

\* The increments the rule set adds for a step that ends with contradiction
\* density rho: (rho - 0.5) * 0.05, plus 0.10 for a pre-empted signal.
RuinIncrement(rho, red) ==
    (((rho - (SCALE \div 2)) * 5 * (RUIN_SCALE \div SCALE)) \div 100)
        + (IF red THEN RUIN_SCALE \div 10 ELSE 0)

\* A step that ended with contradiction density above 0.5.
EndsAboveHalf ==
    /\ driver \in {"reason", "step"}
    /\ nsteps' = nsteps + 1
    /\ state'.contradiction_density > SCALE \div 2

\* C25 as stated: after every step that ends with contradiction density above
\* 0.5 the ruin estimate is strictly greater than before it, by
\* (rho - 0.5) * 0.05 plus 0.10 if the signal triggered red pre-emption, and
\* never exceeds 1.0.
C25_StrictlyIncreasingAlways ==
    [][EndsAboveHalf =>
          /\ ruin_prob' > ruin_prob
          /\ ruin_prob' = ruin_prob + RuinIncrement(state'.contradiction_density, last'.red)
          /\ ruin_prob' <= RUIN_SCALE]_vars

\* C25: after every step that ends with contradiction density above 0.5 the
\* ruin estimate is the estimate before it plus (rho - 0.5) * 0.05, plus 0.10
\* if the signal triggered red pre-emption, capped at 1.0; it is strictly
\* greater than before whenever the estimate before the step was below 1.0.
C25_StrictlyIncreasing ==
    [][EndsAboveHalf =>
          /\ ruin_prob' = Min(RUIN_SCALE,
                              ruin_prob + RuinIncrement(state'.contradiction_density, last'.red))
          /\ ruin_prob < RUIN_SCALE => ruin_prob' > ruin_prob
          /\ ruin_prob' <= RUIN_SCALE]_vars

\* Three steps in a row ended with contradiction density 0.6, each adding
\* 0.105 to an estimate that started at 0.
C25_Witness ==
    /\ driver = "step"
    /\ nsteps = 3
    /\ state.contradiction_density = 600
    /\ last.op = "step" /\ last.red
    /\ ruin_prob = 3 * RuinIncrement(600, TRUE)

\* C26: the red_preempted field of reason's result is true exactly when at
\* least one of the signals reason processed triggered red pre-emption; and a
\* step never clears a State's red_preempted flag once it is set.
C26_RedPreemptedFlag ==
    /\ [](ret.op = "reason" =>
             (ret.red_preempted <=> BlueCount(signals, nsteps) < nsteps))
    /\ [][(driver \in {"reason", "step"} /\ nsteps' = nsteps + 1 /\ state.red_preempted) =>
             state'.red_preempted]_vars

\* reason returned a result with the flag set by its first signal, after at
\* least two more signals, the last of them a Blue one.
C26_Witness ==
    /\ ret.op = "reason"
    /\ ret.red_preempted
    /\ nsteps >= 3
    /\ BlueCount(signals, 1) = 0
    /\ last.op = "step" /\ ~last.red

-----------------------------------------------------------------------------
(* Properties of the collapse governor (SpecGovernor)                      *)

\* The result the four rules give when rule 1 compares against zeroback.
PriorityDecision(s, sorted, occam, zeroback) ==
    IF s.contradiction_density > zeroback
    THEN [mode |-> ZEROBACK, selected |-> <<>>]
    ELSE IF s.collapse_mode = HICKAM /\ hickam_cluster_ok(s, sorted).ok
    THEN [mode |-> HICKAM, selected |-> hickam_cluster_ok(s, sorted).cluster]
    ELSE IF Len(s.hypotheses) > 0 /\ MaxOf(s.posteriors) >= occam
    THEN [mode |-> OCCAM, selected |-> <<ArgMax(s.posteriors)>>]
    ELSE [mode |-> s.collapse_mode, selected |-> <<>>]

\* C5: decide_collapse applies its rules in strict priority: contradiction
\* density above the ZeroBack threshold gives ZEROBACK with no selection; else a
\* successful Hickam cluster in HICKAM mode; else OCCAM with the top hypothesis
\* when its posterior reaches the Occam minimum; else the current mode, empty.
C5_StrictPriority ==
    ret.op = "decide_collapse" =>
        [mode |-> ret.mode, selected |-> ret.selected] =
            PriorityDecision(state, ret.sorted,
                             OrDefault(ret.overrides[1], COLLAPSE_MIN_TOP),
                             OrDefault(ret.overrides[2], ZERO_BACK_CONTRA))

\* C6: with no override, decide_collapse moves a State that is not already in
\* ZEROBACK mode to ZEROBACK exactly when its contradiction density exceeds
\* ZERO_BACK_CONTRA.
C6_ZeroBackThreshold ==
    (ret.op = "decide_collapse" /\ ret.overrides[2].none /\ state.collapse_mode # ZEROBACK) =>
        (ret.mode = ZEROBACK <=> state.contradiction_density > ZERO_BACK_CONTRA)

\* The members of a returned cluster, as a set of list positions.
Members(cluster) == {cluster[i] : i \in 1..Len(cluster)}

\* The exclusivity of the hypotheses at two list positions, looked up by id.
PairXi(s, a, b) == ExclusivityGet(s.exclusivity, s.hypotheses[a].id, s.hypotheses[b].id)

RECURSIVE RefJoins(_, _, _)
RefJoins(s, sorted, k) ==
    \A j \in 1..(k - 1) :
        RefJoins(s, sorted, j) => PairXi(s, sorted[k], sorted[j]) <= HICKAM_MAX_PAIR_XI

\* The cluster and its mass after the first k candidates.
RefCluster(s, sorted, k) == SelectSeq(SubSeq(sorted, 1, k), LAMBDA h :
    \E j \in 1..k : sorted[j] = h /\ RefJoins(s, sorted, j))
RefMass(s, sorted, k) ==
    Sum([i \in 1..Len(RefCluster(s, sorted, k)) |-> s.posteriors[RefCluster(s, sorted, k)[i]]])

\* The candidates before the first one with posterior exactly 0.
RefLive(s, sorted) ==
    {k \in 1..Len(sorted) : \A j \in 1..k : s.posteriors[sorted[j]] # 0}

\* The points of the scan at which both success criteria are met.
RefHits(s, sorted) ==
    {k \in RefLive(s, sorted) :
        Len(RefCluster(s, sorted, k)) >= 2 /\ RefMass(s, sorted, k) >= HICKAM_MASS_THRESH}

ReferenceScan(s, sorted) ==
    LET stop == IF RefHits(s, sorted) # {}
                THEN CHOOSE k \in RefHits(s, sorted) : \A j \in RefHits(s, sorted) : k <= j
                ELSE Cardinality(RefLive(s, sorted))
    IN  [ok |-> RefHits(s, sorted) # {},
         cluster |-> RefCluster(s, sorted, stop),
         mass |-> RefMass(s, sorted, stop)]

\* The order handed to the scan is by descending posterior.
Descending(s, sorted) ==
    \A i \in 1..(Len(sorted) - 1) : s.posteriors[sorted[i]] >= s.posteriors[sorted[i + 1]]

\* The scenario of test_three_way_cluster.
ThreeWayScenario ==
    (state.posteriors = ThreeWayPosteriors /\ state.exclusivity.matrix = ThreeWayMatrix) =>
        (ret.ok /\ ret.cluster = <<1, 2, 3>> /\ ret.mass >= HICKAM_MASS_THRESH)

C9_DecisionTable ==
    (ret.op = "should_collapse" /\ Len(state.hypotheses) >= 1) =>
        (ret.value <=>
            \/ /\ state.collapse_mode = OCCAM
               /\ MaxOf(state.posteriors) >= COLLAPSE_MIN_TOP
               /\ state.contradiction_density <= COLLAPSE_MAX_CONTRA
               /\ state.ruin_prob <= COLLAPSE_MAX_RUIN
            \/ /\ state.collapse_mode = HICKAM
               /\ hickam_cluster_ok(state, ret.sorted).ok
               /\ state.ruin_prob <= COLLAPSE_MAX_RUIN)

\* A HICKAM State collapses although its contradiction density is above the
\* Occam gate, with its ruin exactly at the maximum.
C9_Witness ==
    /\ ret.op = "should_collapse" /\ ret.value
    /\ state.collapse_mode = HICKAM
    /\ state.contradiction_density > COLLAPSE_MAX_CONTRA
    /\ state.ruin_prob = COLLAPSE_MAX_RUIN

\* An OCCAM collapse left exactly the hypothesis at list position sel at 1.0.
OneHot(s, sel) ==
    /\ Len(s.posteriors) = Len(s.hypotheses)
    /\ sel \in 1..Len(s.posteriors)
    /\ \A i \in 1..Len(s.posteriors) : s.posteriors[i] = IF i = sel THEN SCALE ELSE 0
    /\ Sum(s.posteriors) = SCALE
    /\ s.collapse_mode = OCCAM

-----------------------------------------------------------------------------
(* Properties of exclusivity and contradiction density (SpecExclusivity)   *)

\* Every entry of the matrix lies in [0, 1].
EntriesInRange(e) ==
    \A i, j \in 1..Len(e.ids) : e.matrix[i][j] >= 0 /\ e.matrix[i][j] <= SCALE

\* C15: every Exclusivity a State holds, whether returned by
\* build_exclusivity_from_rules, by infer_exclusivity_from_expectations or by
\* the rebuild of ensure_exclusivity after changes of the hypothesis list, is
\* symmetric, has a zero diagonal and has all its entries in [0, 1].
C15_ExclusivityWellFormed ==
    ~state.exclusivity.none =>
        /\ ExclusivityValid(state.exclusivity.ids, state.exclusivity.matrix)
        /\ EntriesInRange(state.exclusivity)

\* The ids an Exclusivity knows.
KnownIds(e) == {e.ids[i] : i \in 1..Len(e.ids)}

RebuiltAfterChange ==
    /\ ret.op = "ensure_exclusivity"
    /\ KnownIds(ret.before.exclusivity) # IdSet(ret.before.hypotheses)

\* C17: when the hypothesis set of a State with an exclusivity has changed, the
\* synchronisation routine replaces it with a matrix of the new size in which
\* every pair whose two ids existed before keeps its value and every pair with
\* a new id has the configured default; the default itself is carried over.
C17_RebuildPreserves ==
    RebuiltAfterChange =>
        /\ state.exclusivity.ids = Ids(state.hypotheses)
        /\ ExclusivityValid(state.exclusivity.ids, state.exclusivity.matrix)
        /\ state.exclusivity.default = ret.before.exclusivity.default
        /\ \A a, b \in IdSet(state.hypotheses) :
              a # b =>
                ExclusivityGet(state.exclusivity, a, b) =
                    IF a \in KnownIds(ret.before.exclusivity)
                          /\ b \in KnownIds(ret.before.exclusivity)
                    THEN ExclusivityGet(ret.before.exclusivity, a, b)
                    ELSE ret.before.exclusivity.default

\* The id-to-index map and the exclusivity's row order agree with the list.
InSync(s) ==
    /\ DOMAIN s.index = IdSet(s.hypotheses)
    /\ \A i \in 1..Len(s.hypotheses) : s.index[s.hypotheses[i].id] = i
    /\ s.exclusivity.ids = Ids(s.hypotheses)

\* C18: after a change of the hypothesis list (add, remove or reorder) followed
\* by the synchronisation routine, the id-to-index map sends every id to its
\* position in the list and the exclusivity's rows follow the same order, so
\* no stale mapping is left to index the posteriors or the matrix with.
C18_SyncAfterChange ==
    (ret.op = "ensure_exclusivity" /\ last.op = "change") => InSync(state)

\* The sum over unordered pairs {i, j} of exclusivity(id_i, id_j) * p[i] * p[j],
\* the exclusivity looked up by id; kept on the grid SCALE^2 (each product is
\* scaled down in two parts so that it stays within 32 bits).
PairSum(s) ==
    LET n == Len(s.hypotheses)
    IN  Sum(Vec([k \in 1..(n * n) |->
                    LET i == ((k - 1) \div n) + 1
                        j == ((k - 1) % n) + 1
                    IN  IF i < j
                        THEN (((ExclusivityGet(s.exclusivity, s.hypotheses[i].id,
                                               s.hypotheses[j].id)
                                  * s.posteriors[i]) \div 10) * s.posteriors[j]) \div 100
                        ELSE 0], n * n))

\* PairSum clamped to [0, 1], on the grid SCALE^2.
ClampedPairSum(s) == Max(0, Min(SCALE * SCALE, PairSum(s)))

\* x on the grid SCALE equals y on the grid SCALE^2 up to the rounding of the
\* n + 1 fixed-point divisions of the matrix product.
SameUpToRounding(x, y, n) ==
    /\ x * SCALE - y <= (n + 1) * SCALE
    /\ y - x * SCALE <= (n + 1) * SCALE

AllZeroMatrix(e) == \A i, j \in 1..Len(e.ids) : e.matrix[i][j] = 0

\* C19: compute_contradiction_density returns, for a State with at least two
\* hypotheses, the sum over unordered hypothesis pairs of
\* exclusivity(id_i, id_j) * p[i] * p[j] with the exclusivity looked up by id,
\* clamped to [0, 1], and stores it in the State; it returns 0 for fewer than
\* two hypotheses or an all-zero matrix; exclusivity 0.9 with posteriors
\* [0.7, 0.6] gives 0.378.
C19_ContradictionDensity ==
    ret.op = "compute_contradiction_density" =>
        /\ state.contradiction_density = ret.value
        /\ ret.value \in 0..SCALE
        /\ Len(state.hypotheses) < 2 => ret.value = 0
        /\ Len(state.hypotheses) >= 2 =>
              /\ SameUpToRounding(ret.value, ClampedPairSum(state), Len(state.hypotheses))
              /\ AllZeroMatrix(state.exclusivity) => ret.value = 0
              /\ (/\ Len(state.hypotheses) = 2
                  /\ ExclusivityGet(state.exclusivity, state.hypotheses[1].id,
                                    state.hypotheses[2].id) = 900
                  /\ state.posteriors = <<700, 600>>) => ret.value = 378

\* compute_contradiction_density ran right after the hypothesis list and the
\* posterior vector were permuted together (the exclusivity object, which
\* attaches its values to pairs of ids, was left as it was).
ComputedAfterReorder ==
    /\ ret.op = "compute_contradiction_density"
    /\ last.op = "change"
    /\ last.kind = "reorder"

\* C20: contradiction density is invariant under a consistent reordering: the
\* value computed after permuting hypotheses and posteriors together, the
\* exclusivity values staying attached to the same id pairs, is the value the
\* State had (would have been given) before the permutation.
C20_ReorderInvariant ==
    ComputedAfterReorder =>
        ret.value = compute_contradiction_density(last.before).contradiction_density

-----------------------------------------------------------------------------
(* Properties of two kernel runs (SpecTwoRuns)                             *)

\* The collapse decision reason would store for the State, for every order
\* argsort may give equal posteriors.
CollapseDecisions(s) ==
    {decide_collapse(s, sorted, None, None).mode : sorted \in ArgsortDesc(s.posteriors)}

\* C21: two runs that start from identical initial States and process the
\* identical ordered signal sequence have, after every step, identical
\* posteriors, contradiction density, stability flag, ruin estimate, step
\* counter and collapse decision.
C21_Deterministic ==
    driver = "two runs" =>
        /\ twin.state.posteriors = state.posteriors
        /\ twin.state.contradiction_density = state.contradiction_density
        /\ twin.state.lyapunov_stable = state.lyapunov_stable
        /\ twin.ruin_prob = ruin_prob
        /\ twin.state.step_num = state.step_num
        /\ CollapseDecisions(twin.state) = CollapseDecisions(state)

-----------------------------------------------------------------------------
(* Properties of the Exclusivity constructor (SpecExclusivity)             *)

\* C22: constructing an Exclusivity fails with an error, and produces no
\* instance, whenever the matrix is not square of size len(ids), is not
\* symmetric, or has a nonzero diagonal entry; and no State holds an
\* exclusivity that is malformed in one of these ways.
C22_ConstructorRejects ==
    /\ (ret.op = "Exclusivity" /\ ~ExclusivityValid(ret.ids, ret.matrix)) =>
          (ret.raised # "none" /\ ret.value.none)
    /\ ~state.exclusivity.none =>
          ExclusivityValid(state.exclusivity.ids, state.exclusivity.matrix)

-----------------------------------------------------------------------------
(* Properties of token buffering (SpecStream)                              *)

\* The token lists of the chunks, one after the other.
ChunkTokens(cs) == Join([k \in 1..Len(cs) |-> cs[k].tokens])

\* The number of tokens in the first k chunks.
TokensBefore(cs, k) == Len(ChunkTokens(SubSeq(cs, 1, k)))

\* C27: for every chunk emitted by add_token or flush, start_idx is the global
\* index of the chunk's first token and end_idx that of its last token, so
\* end_idx - start_idx + 1 = token_count and consecutive chunks cover adjacent
\* index ranges.
C27_ChunkIndices ==
    \A k \in 1..Len(chunks) :
        /\ chunks[k].start_idx = TokensBefore(chunks, k - 1)
        /\ chunks[k].end_idx = TokensBefore(chunks, k) - 1
        /\ chunks[k].end_idx - chunks[k].start_idx + 1 = chunks[k].token_count
        /\ k > 1 => chunks[k].start_idx = chunks[k - 1].end_idx + 1

\* C29: the buffer neither loses, duplicates nor reorders tokens: the token
\* lists of the emitted chunks followed by what is still buffered are the
\* tokens added, every chunk's text is the concatenation of its tokens, and
\* after a flush the buffer is empty, all tokens added are in the chunks, and a
\* second flush returns nothing.
C29_NoTokenLost ==
    /\ [](driver = "stream" =>
            /\ ChunkTokens(chunks) \o buffer.buffer = tokens
            /\ \A k \in 1..Len(chunks) :
                  /\ chunks[k].text = Join(chunks[k].tokens)
                  /\ chunks[k].token_count = Len(chunks[k].tokens)
            /\ ret.op = "flush" =>
                  /\ buffer.buffer = <<>>
                  /\ Join([k \in 1..Len(chunks) |-> chunks[k].text]) = Join(tokens)
                  /\ ChunkTokens(chunks) = tokens)
    /\ [][(driver = "stream" /\ ret.op = "flush" /\ ret'.op = "flush") => ret'.value.none]_vars

\* A stream of four tokens came out as two chunks from add_token and a final
\* one from flush, and flush was then called again.
C29_Witness ==
    /\ driver = "stream"
    /\ Len(tokens) = 4
    /\ Len(chunks) = 3
    /\ ret.op = "flush" /\ ret.value.none
    /\ \E k \in 1..3 : Len(chunks[k].tokens) >= 2

-----------------------------------------------------------------------------
(* Properties of the stream governor (SpecStreamGovernor)                  *)

\* C28: after reset, and after any chunks processed since, the governor's
\* State, ruin estimate, chunk count and per-hypothesis drift scores are those
\* of a freshly constructed governor with the same hypotheses and constraint
\* maps that was handed the same chunks, and both return identical metrics.
C28_ResetIsFresh ==
    (driver = "stream governor" /\ twin # NoCall) =>
        /\ state = twin.state
        /\ ruin_prob = twin.ruin_prob
        /\ governor.chunk_count = twin.chunk_count
        /\ governor.drift = twin.drift
        /\ ret.op = "process_chunk" => ret.fresh = Some(ret.metrics)

-----------------------------------------------------------------------------
(* Convergence and the final collapse decision of reason                    *)

\* reason (auto_collapse) returned a result whose converged flag is true.
ReasonConverged ==
    /\ driver = "reason"
    /\ ret.op = "reason"
    /\ auto_collapse
    /\ ret.converged

\* C30: whenever reason, with auto_collapse enabled, returns a result whose
\* converged flag is true, the collapse mode it stored in the State is not
\* ZEROBACK.
C30_ConvergedNotZeroBack ==
    ReasonConverged => state.collapse_mode # ZEROBACK


====
